---- MODULE Spec2Model ----
(***************************************************************************)
(* Request-security pipeline of the Vizinho Virtual API gateway:           *)
(* the Redis-backed store (blacklist entries, rate counters), the          *)
(* securityMiddleware, the authMiddleware, the rate-limit helpers and the  *)
(* permission checks.  Time is counted in seconds; every Redis command is  *)
(* one atomic step, and handlers interleave between their awaits.          *)
(***************************************************************************)
EXTENDS Integers, Sequences, FiniteSets, TLC

(***************************************************************************)
(* Bounds of the model.                                                    *)
(***************************************************************************)
MaxTime == 300
TickSeconds == 150
MaxCount == 12
MaxSuspicious == 7
MaxHours == 2
MaxReqs == 2
MaxPos == 2
MaxHalfDays == 3
MaxLimit == 3
MaxCalls == 5
MaxAuditTicks == 2
MaxAudits == 2
MaxFailed == 1
MaxChunks == 5

(***************************************************************************)
(* Program constants.                                                      *)
(***************************************************************************)
SuspiciousThreshold == 5
SuspiciousWindowSeconds == 3600
IpBlacklistSeconds == 86400
SensitiveLimit == 10
SensitiveWindowSeconds == 300
AuthLimiterMax == 10
ServiceLimiterMax == 10
AccessTokenSeconds == 86400
BlacklistDefaultSeconds == 86400
RefreshTokenSeconds == 7 * 24 * 60 * 60

IPs == {"ip1"}
LoginPath == "/api/auth/login"
UsersPath == "/api/users"
Paths == {LoginPath, UsersPath}
Reqs == 1..MaxReqs

\* sensitiveEndpoints.some(endpoint => req.path.startsWith(endpoint))
IsSensitive(path) == path \in {LoginPath}

(***************************************************************************)
(* The key-value store.  An entry holds a counter n (INCR), a string s     *)
(* (SETEX) and its absolute expiry time exp; NoTTL is a key without TTL.   *)
(***************************************************************************)
NoTTL == -1
Absent == [n |-> 0, s |-> "", exp |-> NoTTL]

IpBlacklistKey(ip) == <<"blacklist:ip", ip>>
SuspiciousKey(ip) == <<"suspicious", ip>>
RateLimitKey(ip, path) == <<"rate_limit", ip, path>>

\* tokens: one signed with JWT_SECRET for user u1, one with a forged signature;
\* both carry exp = AccessTokenSeconds (issued at time 0 for 24h)
GoodToken == "t1"
ForgedToken == "tForged"
Tokens == {GoodToken, ForgedToken}
Users == {"u1"}

\* `blacklist:${token}`, `blacklist:${type}:${value}`, `user:${userId}:active`
TokenBlacklistKey(token) == <<"blacklist", token>>
TypedBlacklistKey(type, value) == <<"blacklist:" \o type, value>>
UserActiveKey(userId) == <<"user:active", userId>>

\* the key a caller of checkRateLimit passes
CallerKey == <<"caller_key">>

Keys ==
  {IpBlacklistKey(ip) : ip \in IPs} \cup {SuspiciousKey(ip) : ip \in IPs}
    \cup {RateLimitKey(ip, p) : ip \in IPs, p \in {q \in Paths : IsSensitive(q)}}
    \cup {TokenBlacklistKey(t) : t \in Tokens}
    \cup {TypedBlacklistKey("token", t) : t \in Tokens}
    \cup {UserActiveKey(u) : u \in Users}
    \cup {CallerKey}

RExists(st, k) == st[k] # Absent
RIncr(st, k) ==
  [st EXCEPT ![k] = IF st[k] = Absent THEN [n |-> 1, s |-> "", exp |-> NoTTL]
                    ELSE [@ EXCEPT !.n = @ + 1]]
RExpire(st, k, ttl, t) ==
  IF st[k] = Absent THEN st ELSE [st EXCEPT ![k].exp = t + ttl]
RSetEx(st, k, ttl, v, t) == [st EXCEPT ![k] = [n |-> 0, s |-> v, exp |-> t + ttl]]
RDel(st, k) == [st EXCEPT ![k] = Absent]
\* the store's own TTL: at time t every key whose expiry has passed is gone
RSweep(st, t) ==
  [k \in DOMAIN st |-> IF st[k].exp # NoTTL /\ st[k].exp <= t THEN Absent ELSE st[k]]

(***************************************************************************)
(* The lists of the audit module.  A key is a family and a calendar date   *)
(* (the day number of the clock); a key that does not exist is an empty    *)
(* list without TTL.  LPUSH puts the new element at the head.              *)
(***************************************************************************)
SecondsPerDay == 24 * 60 * 60
AuditTtlSeconds == 30 * 24 * 60 * 60
GdprTtlSeconds == 7 * 365 * 24 * 60 * 60
FinancialTtlSeconds == 10 * 365 * 24 * 60 * 60
AdminTtlSeconds == 10 * 365 * 24 * 60 * 60
DefaultAuditLimit == 100
DefaultGdprLimit == 50
GdprLookbackDays == 30

\* the clock of the audit runs moves by half the shortest retention
AuditTickSeconds == AuditTtlSeconds \div 2

\* timestamp.toISOString().split('T')[0]
DateOf(t) == t \div SecondsPerDay

Writers == <<"audit", "gdpr", "financial", "admin">>
WriterTtl == <<AuditTtlSeconds, GdprTtlSeconds, FinancialTtlSeconds, AdminTtlSeconds>>
Families == {Writers[w] : w \in 1..4}
AuditDates == {DateOf(i * AuditTickSeconds) : i \in 0..MaxAuditTicks}
ListKeys == Families \X AuditDates
NoList == [items |-> <<>>, exp |-> NoTTL]

\* what a writer that replaced the list instead of pushing to it would do
LPushReplacing(ls, k, v) == [ls EXCEPT ![k].items = <<v>>]
LPush(ls, k, v) == [ls EXCEPT ![k].items = <<v>> \o @]
LExpire(ls, k, ttl, t) ==
  IF ls[k].items = <<>> THEN ls ELSE [ls EXCEPT ![k].exp = t + ttl]
\* lrange(key, 0, stop): the elements 0 to stop, all of them when stop is -1
LRange(ls, k, stop) ==
  LET items == ls[k].items
      last == IF stop < 0 THEN Len(items) + 1 + stop ELSE stop + 1
  IN  SubSeq(items, 1, IF last > Len(items) THEN Len(items) ELSE last)
LSweep(ls, t) ==
  [k \in DOMAIN ls |-> IF ls[k].exp # NoTTL /\ ls[k].exp <= t THEN NoList ELSE ls[k]]

VARIABLES
  now,                 \* the clock, in seconds
  storeUp,             \* whether the store answers
  store,               \* the Redis keys
  xssLastIndex,        \* lastIndex of the global XSS pattern
  travLastIndex,       \* lastIndex of the global path-traversal pattern
  sec,                 \* the requests inside securityMiddleware
  hist,                \* per IP, what the properties remember
  authLimiterHits,     \* hits of the gateway's authLimiter, per IP
  serviceLimiterHits,  \* hits of the user service's authLimiter
  auth,                \* the requests inside authMiddleware
  revoked,             \* per token, whether a blacklisting of it has completed
  rl,                  \* the calls of checkRateLimit in progress
  rlCfg,               \* the limit and the window the caller uses for its key
  rlHist,              \* what the properties remember of the caller's key
  perm,                \* the last permission check and its three verdicts
  bld,                 \* the last request through requireBuildingAccess
  twice,               \* a request sent twice in a row, and its two answers
  opt,                 \* the request inside optionalAuth
  aud,                 \* the request inside auditMiddleware and its finish handler
  lists,               \* the Redis lists of the audit module, per family and date
  fetched,             \* what the last getAuditLogs or getGDPRLogs returned
  hc,                  \* the request inside the health router
  healthy,             \* the downstream services whose /health answers 2xx
  gen,                 \* the last two calls of generateTokens
  passwords,           \* user service: the password hash of each user
  isActive,            \* user service: whether each account is active
  failedLogins,        \* user service: failed logins of each user
  refreshTokens,       \* user service: the refresh token stored for each user
  tokenBlacklist,      \* user service: the blacklisted tokens
  issued,              \* the tokens the user service has signed so far
  stale,               \* the tokens that were issued to a user before a password reset
  redeemed,            \* the refresh tokens that have bought a new pair
  rf,                  \* the requests inside POST /refresh
  resp,                \* the last answer of POST /login, /logout, /reset-password
  errs,                \* the last two errors errorHandler answered
  san                  \* the last value a sanitizer was applied to, and the results

limVars == <<authLimiterHits, serviceLimiterHits>>
authVars == <<auth, revoked>>
secVars == <<xssLastIndex, travLastIndex, sec, hist>>
\* what securityMiddleware and the clock, the limiters, authMiddleware leave alone
rlVars == <<rl, rlCfg, rlHist>>
\* the variables of the handlers that touch neither the store nor each other
healthVars == <<hc, healthy>>
\* the variables of the user service's token and error handling
userVars == <<passwords, isActive, failedLogins, refreshTokens, tokenBlacklist, issued,
              stale, redeemed, rf, resp>>
pureVars == <<errs, san>>
lateVars == <<gen, userVars, pureVars>>
quietVars == <<bld, opt, aud, fetched, healthVars, lateVars>>
restVars == <<quietVars, lists>>
notSecEnter == <<limVars, authVars, rlVars, perm, restVars>>
notSec == <<notSecEnter, twice>>
notLim == <<authVars, rlVars, perm, restVars, twice>>
notAuth == <<secVars, limVars, rlVars, perm, restVars, twice>>
notRl == <<secVars, limVars, authVars, perm, restVars, twice>>
notPerm == <<now, storeUp, store, secVars, limVars, authVars, rlVars, restVars, twice>>
notBld == <<now, storeUp, store, secVars, limVars, authVars, rlVars, perm, twice, opt,
            aud, fetched, lists, healthVars, lateVars>>
notOpt == <<secVars, limVars, authVars, rlVars, perm, twice, bld, aud, fetched, lists,
            healthVars, lateVars>>
notAud == <<now, storeUp, store, secVars, limVars, authVars, rlVars, perm, twice, bld, opt,
            healthVars, lateVars>>
notHealth == <<now, storeUp, store, secVars, limVars, authVars, rlVars, perm, twice, bld,
               opt, aud, fetched, lists, lateVars>>
\* everything but lateVars
gatewayVars == <<now, storeUp, store, secVars, limVars, authVars, rlVars, perm, twice, bld,
                 opt, aud, fetched, lists, healthVars>>
notGen == <<gatewayVars, userVars, pureVars>>
notUser == <<store, secVars, limVars, authVars, rlVars, perm, twice, bld, opt, aud, fetched,
             lists, healthVars, gen, pureVars>>
notErrs == <<gatewayVars, gen, userVars, san>>
notSan == <<gatewayVars, gen, userVars, errs>>
vars == <<now, storeUp, store, secVars, limVars, authVars, rlVars, perm, restVars, twice>>

(***************************************************************************)
(* Attack detectors.  A request's data is abstracted to what the pattern   *)
(* lists see: whether an SQL pattern matches, and the end index of the     *)
(* match of an XSS / path-traversal pattern (0: no match).  The SQL        *)
(* patterns carry only the i flag; the XSS and traversal patterns carry    *)
(* the g flag, so RegExp.test starts at lastIndex and leaves it behind.    *)
(***************************************************************************)
MatchEnds == 0..MaxPos

detectSQLInjection(input) == input.sqli

\* RegExp.prototype.test of a global pattern whose only match ends at `end`
RegExpTest(end, lastIndex) == end > 0 /\ lastIndex < end
RegExpLastIndex(end, lastIndex) == IF RegExpTest(end, lastIndex) THEN end ELSE 0

detectXSS(input, lastIndex) == RegExpTest(input.xss, lastIndex)
detectPathTraversal(end, lastIndex) == RegExpTest(end, lastIndex)

Shapes ==
  [sqli : BOOLEAN, xss : MatchEnds, trav : MatchEnds, ptrav : MatchEnds,
   badUA : BOOLEAN, big : BOOLEAN]
CleanShape ==
  [sqli |-> FALSE, xss |-> 0, trav |-> 0, ptrav |-> 0, badUA |-> FALSE, big |-> FALSE]
SqliShape == [CleanShape EXCEPT !.sqli = TRUE]

(***************************************************************************)
(* securityMiddleware, one slot per request in flight.                     *)
(***************************************************************************)
\* first, nfail, ord and fresh are what the properties remember of the request: the
\* code of the first of the checks 1 to 6 that fails on it ("" when none does),
\* how many of them fail, its place among the requests of its IP to the
\* sensitive path in their five-minute window, and whether that window is the
\* first one of the IP.  attempts and requests are the counts the request
\* itself has read from the store.
IdleSec ==
  [pc |-> "idle", ip |-> "ip1", path |-> UsersPath, first |-> "", nfail |-> 0,
   attempts |-> 0, requests |-> 0, status |-> 0, code |-> "", nextCalled |-> 0,
   headers |-> FALSE, ord |-> 0, fresh |-> FALSE]

\* what the properties remember of an IP: the SQL-injection requests answered
\* within an hour of the first of them, whether unblockIP was used and the
\* SQL-injection requests seen since it was, and the requests of the current
\* five-minute window of the sensitive path
IdleHist == [sqlFirst |-> NoTTL, sqlAnswered |-> 0, unblocked |-> FALSE, sqlSinceUnblock |-> 0,
             winFirst |-> NoTTL, winSeen |-> 0, winPassed |-> 0, windows |-> 0]

\* token is the Bearer token ("" without one); listed is what the blacklist
\* lookup found and active what the lookup of the user's flag found; user is req.user; responses counts the answers sent; revoked
\* and live are what the properties remember: whether a blacklisting of the
\* token had completed, and whether the token was signed and unexpired, when
\* the request came in
NoHeader == ""
IdleAuth ==
  [pc |-> "idle", token |-> NoHeader, listed |-> FALSE, active |-> FALSE, status |-> 0, code |-> "",
   responses |-> 0, nextCalled |-> 0, user |-> "", revoked |-> FALSE, live |-> FALSE]

\* a call of checkRateLimit: current is what INCR returned, ttl what TTL
\* returned, allowed and remaining the result; ord is what the properties
\* remember: the call's place among the calls of its window
NoCfg == [limit |-> 0, window |-> 0]
IdleCall ==
  [pc |-> "idle", current |-> 0, ttl |-> 0, allowed |-> FALSE, remaining |-> 0,
   failed |-> FALSE, ord |-> 0]

\* a permission check: the Principal (none when req.user is unset), the
\* permission asked for, and what each of the three checks made of it
IdlePerm ==
  [user |-> FALSE, role |-> "", permissions |-> {}, permission |-> <<>>,
   status |-> 0, code |-> "", nextCalled |-> 0, gateway |-> FALSE, service |-> FALSE]

\* a request through requireBuildingAccess: the Principal (none when req.user
\* is unset), its role and buildingId claim, req.params.buildingId and
\* req.body.buildingId, and the answer
Undefined == "<undefined>"
Null == "<null>"
IdleBld ==
  [user |-> FALSE, role |-> "", claim |-> Undefined, params |-> Undefined,
   body |-> Undefined, status |-> 0, code |-> "", nextCalled |-> 0]

\* what the properties remember of a request sent twice in a row: its data,
\* how many times it was sent, and the code of each answer ("" when passed on)
NoneSent == [shape |-> CleanShape, n |-> 0, code1 |-> "", code2 |-> ""]

\* a request inside optionalAuth; accept is what the properties remember:
\* whether authMiddleware would accept the token in the store state that
\* optionalAuth read
IdleOpt ==
  [pc |-> "idle", token |-> NoHeader, responses |-> 0, nextCalled |-> 0,
   user |-> "", accept |-> FALSE]

\* a request inside auditMiddleware and the finish handler of its response.
\* id is the auditId (the number of ids issued so far while idle); status,
\* userId and personal are what the finish handler puts in the record; w is
\* the writer at work.  pushed, ran, errors and accesses are what the
\* properties remember: the pushes made per family, the writers entered, the
\* errors caught and logged, the store commands issued.
NoPath == <<>>
IdleAud ==
  [pc |-> "idle", id |-> 0, path |-> NoPath, method |-> "GET", isGDPRRelevant |-> FALSE,
   isFinancialData |-> FALSE, accessesPersonalData |-> FALSE, nextCalled |-> 0,
   responses |-> 0, status |-> 0, userId |-> Undefined, personal |-> FALSE, w |-> 0,
   pushed |-> [f \in Families |-> 0], ran |-> {}, errors |-> 0, accesses |-> 0]

\* the payloads of the access tokens of the last two calls of generateTokens
NoPayload == [userId |-> "", role |-> "", buildingId |-> Undefined, permissions |-> {}]
NoneIssued == [n |-> 0, first |-> NoPayload, second |-> NoPayload]

(***************************************************************************)
(* The user service.  Its users live in UserService (a database): ana is   *)
(* a plain account, bia has two-factor authentication, caio has not        *)
(* verified the email yet, davi starts deactivated, eva is not registered. *)
(***************************************************************************)
UserIds == {"u1", "u2", "u3", "u4"}
NoUser == ""
userRows ==
  [u1 |-> [email |-> "ana@x", emailVerified |-> TRUE, twoFactorEnabled |-> FALSE],
   u2 |-> [email |-> "bia@x", emailVerified |-> TRUE, twoFactorEnabled |-> TRUE],
   u3 |-> [email |-> "caio@x", emailVerified |-> FALSE, twoFactorEnabled |-> FALSE],
   u4 |-> [email |-> "davi@x", emailVerified |-> TRUE, twoFactorEnabled |-> FALSE]]
Emails == {"ana@x", "bia@x", "caio@x", "davi@x", "eva@x"}
PlainPasswords == {"pw1", "pw2", "wrong"}
\* twoFactorCode: absent, the current code of the user's secret, another code
NoCode == ""
TwoFactorCodes == {NoCode, "totp-good", "totp-bad"}

\* bcrypt.hash and bcrypt.compare
hashPassword(password) == "bcrypt:" \o password
verifyPassword(password, hash) == hash = hashPassword(password)

\* a signed token: what it was signed as (access: JWT_SECRET, refresh:
\* JWT_REFRESH_SECRET, forged: neither), its userId and its iat in seconds.
\* Two tokens of one kind signed for one user within one second are equal.
NoToken == [type |-> "none", userId |-> NoUser, iat |-> 0]
ForgedRefresh == [type |-> "forged", userId |-> "u1", iat |-> 0]
NoPair == [accessToken |-> NoToken, refreshToken |-> NoToken]

\* jwt.sign(accessPayload, JWT_SECRET, ...), jwt.sign(refreshPayload, JWT_REFRESH_SECRET, ...)
signTokens(userId, clock) ==
  [accessToken |-> [type |-> "access", userId |-> userId, iat |-> clock],
   refreshToken |-> [type |-> "refresh", userId |-> userId, iat |-> clock]]

\* jwt.verify and the check of decoded.type; NoUser stands for null
verifyAccessToken(token, clock) ==
  IF token.type = "access" /\ clock < token.iat + AccessTokenSeconds
  THEN token.userId ELSE NoUser
verifyRefreshToken(token, clock) ==
  IF token.type = "refresh" /\ clock < token.iat + RefreshTokenSeconds
  THEN token.userId ELSE NoUser

\* userService.findByEmail, userService.findByPasswordResetToken
findByEmail(email) ==
  IF \E u \in UserIds : userRows[u].email = email
  THEN CHOOSE u \in UserIds : userRows[u].email = email
  ELSE NoUser
ResetTokens == {"reset-u1", "reset-bad"}
findByPasswordResetToken(token) == IF token = "reset-u1" THEN "u1" ELSE NoUser

\* a request inside POST /refresh: wasRedeemed and again are what the
\* properties remember (whether the presented token had bought a pair before
\* the request began, and before it got its own pair)
IdleRefresh ==
  [pc |-> "idle", token |-> NoToken, userId |-> NoUser, status |-> 0, code |-> "",
   tokens |-> NoPair, wasRedeemed |-> FALSE, wasStale |-> FALSE, again |-> FALSE]
\* the last answer of an atomic handler, and what the properties remember of
\* the request it answered
NoResponse ==
  [op |-> "", userId |-> NoUser, status |-> 0, code |-> "", tokens |-> NoPair,
   generated |-> FALSE, found |-> FALSE, active |-> FALSE, passwordValid |-> FALSE,
   verified |-> FALSE, twoFactor |-> FALSE, codeValid |-> FALSE,
   presented |-> NoToken, storedBefore |-> NoToken, storedAfter |-> NoToken]

(***************************************************************************)
(* Request data for the sanitizers.  A string is the sequence of its       *)
(* characters; a value is a string, an array or an object with at most one *)
(* own key (keys never collide then).                                      *)
(***************************************************************************)
StringValue(chars) == [kind |-> "string", s |-> chars, keys |-> <<>>, items |-> <<>>]
ArrayValue(items) == [kind |-> "array", s |-> <<>>, keys |-> <<>>, items |-> items]
ObjectValue(keys, items) == [kind |-> "object", s |-> <<>>, keys |-> keys, items |-> items]
NoneSanitized ==
  [fn |-> "", input |-> StringValue(<<>>), output |-> StringValue(<<>>),
   again |-> StringValue(<<>>), detected |-> FALSE]

\* an error as errorHandler sees it: statusCode 0 and code "" stand for a
\* field that is absent (both are falsy, as undefined is); what was logged
\* and answered for it
NoStatusCode == 0
NoErrorCode == ""
NoError == [statusCode |-> NoStatusCode, code |-> NoErrorCode, isOperational |-> FALSE]
NoHandling == [error |-> NoError, level |-> "", notified |-> FALSE, status |-> 0, code |-> ""]
NoneHandled == [n |-> 0, first |-> NoHandling, second |-> NoHandling]

\* a request inside the health router; storeSeen and criticalSeen are what
\* the properties remember of GET /health/ready: whether the store answered
\* when it was asked, and whether every critical service was healthy when
\* the services were asked
HealthPath == "/health"
ReadyPath == "/health/ready"
Services ==
  {"user-management", "building-management", "financial", "communication", "assembly",
   "marketplace", "professional", "security"}
criticalServices == {"user-management", "building-management", "financial"}
IdleHealth ==
  [pc |-> "idle", status |-> 0, responses |-> 0, storeSeen |-> FALSE, criticalSeen |-> FALSE]

Init ==
  /\ now = 0
  /\ storeUp = TRUE
  /\ store = [k \in Keys |-> Absent]
  /\ xssLastIndex = 0
  /\ travLastIndex = 0
  /\ sec = [r \in Reqs |-> IdleSec]
  /\ hist = [ip \in IPs |-> IdleHist]
  /\ authLimiterHits = [ip \in IPs |-> 0]
  /\ serviceLimiterHits = 0
  /\ auth = [r \in Reqs |-> IdleAuth]
  /\ revoked = [t \in Tokens |-> FALSE]
  /\ rl = [c \in Reqs |-> IdleCall]
  /\ rlCfg = NoCfg
  /\ rlHist = [winFirst |-> NoTTL, winSeen |-> 0]
  /\ perm = IdlePerm
  /\ bld = IdleBld
  /\ twice = NoneSent
  /\ opt = IdleOpt
  /\ aud = IdleAud
  /\ lists = [k \in ListKeys |-> NoList]
  /\ fetched = <<>>
  /\ hc = IdleHealth
  /\ healthy = Services
  /\ gen = NoneIssued
  /\ passwords = [u \in UserIds |-> hashPassword("pw1")]
  /\ isActive = [u \in UserIds |-> u # "u4"]
  /\ failedLogins = [u \in UserIds |-> 0]
  /\ refreshTokens = [u \in UserIds |-> NoToken]
  /\ tokenBlacklist = {}
  /\ issued = {}
  /\ stale = {}
  /\ redeemed = {}
  /\ rf = [r \in Reqs |-> IdleRefresh]
  /\ resp = NoResponse
  /\ errs = NoneHandled
  /\ san = NoneSanitized

\* res.status(status).json({code}); return
Respond(q, status, code) == [q EXCEPT !.pc = "done", !.status = status, !.code = code]
\* steps 9 and 10, then next()
PassOn(q) == [q EXCEPT !.pc = "done", !.headers = TRUE, !.nextCalled = @ + 1]
\* catch (error): 500 INTERNAL_ERROR
SecCatch(q) == Respond(q, 500, "INTERNAL_ERROR")

\* if (requests > 10)
RateExceededEarly(requests) == requests >= SensitiveLimit
RateExceededLate(requests) == requests > SensitiveLimit + 1
RateExceeded(requests) == requests > SensitiveLimit

\* if (attempts >= 5)
ShouldBlockLate(attempts) == attempts > SuspiciousThreshold
ShouldBlock(attempts) == attempts >= SuspiciousThreshold

\* the checks 3 to 7 with the User-Agent check moved in front of the XSS check
AfterSqlUaFirst(q, sh, xl, tl) ==
  LET t1 == detectPathTraversal(sh.ptrav, tl)
      tl1 == RegExpLastIndex(sh.ptrav, tl)
  IN  IF sh.badUA THEN Respond(q, 403, "SUSPICIOUS_USER_AGENT")
      ELSE IF detectXSS(sh, xl) THEN Respond(q, 400, "INVALID_CONTENT")
      ELSE IF t1 \/ detectPathTraversal(sh.trav, tl1) THEN Respond(q, 400, "INVALID_PATH")
      ELSE IF sh.big THEN Respond(q, 413, "PAYLOAD_TOO_LARGE")
      ELSE IF IsSensitive(q.path) THEN [q EXCEPT !.pc = "rlIncr"]
      ELSE PassOn(q)

\* the synchronous checks 3 to 7 that follow the SQL check, up to the next await
AfterSql(q, sh, xl, tl) ==
  LET t1 == detectPathTraversal(sh.ptrav, tl)
      tl1 == RegExpLastIndex(sh.ptrav, tl)
  IN  IF detectXSS(sh, xl) THEN Respond(q, 400, "INVALID_CONTENT")
      ELSE IF t1 \/ detectPathTraversal(sh.trav, tl1) THEN Respond(q, 400, "INVALID_PATH")
      ELSE IF sh.badUA THEN Respond(q, 403, "SUSPICIOUS_USER_AGENT")
      ELSE IF sh.big THEN Respond(q, 413, "PAYLOAD_TOO_LARGE")
      ELSE IF IsSensitive(q.path) THEN [q EXCEPT !.pc = "rlIncr"]
      ELSE PassOn(q)

\* lastIndex of the traversal pattern after check 4 (req.path, then requestData)
TravAfter(sh, tl) ==
  LET t1 == detectPathTraversal(sh.ptrav, tl)
      tl1 == RegExpLastIndex(sh.ptrav, tl)
  IN  IF t1 THEN tl1 ELSE RegExpLastIndex(sh.trav, tl1)

\* const isBlacklisted = await redisClient.get(`blacklist:ip:${clientIP}`); if (isBlacklisted)
IpIsBlacklisted(st, ip) == st[IpBlacklistKey(ip)].s # ""

\* The checks 1 to 6 in the order of section 4.6, each with the response it
\* gives, and the first of them that fails on a request in the current state.
CheckOrder ==
  <<"IP_BLACKLISTED", "INVALID_REQUEST", "INVALID_CONTENT", "INVALID_PATH",
    "SUSPICIOUS_USER_AGENT", "PAYLOAD_TOO_LARGE">>
CheckStatus == <<403, 400, 400, 400, 403, 413>>
CheckFails(i, ip, sh) ==
  CASE i = 1 -> RExists(store, IpBlacklistKey(ip))
    [] i = 2 -> sh.sqli
    [] i = 3 -> sh.xss > xssLastIndex
    [] i = 4 -> \/ sh.ptrav > travLastIndex
                \/ sh.trav > (IF sh.ptrav > travLastIndex THEN sh.ptrav ELSE 0)
    [] i = 5 -> sh.badUA
    [] i = 6 -> sh.big
Failing(ip, sh) == {i \in 1..6 : CheckFails(i, ip, sh)}
FirstCode(failing) ==
  IF failing = {} THEN ""
  ELSE CheckOrder[CHOOSE i \in failing : \A j \in failing : i <= j]

SecEnter(r, ip, path, sh) ==
  /\ sec[r].pc = "idle"
  /\ LET failing == Failing(ip, sh)
         q == [IdleSec EXCEPT !.ip = ip, !.path = path, !.first = FirstCode(failing),
                              !.nfail = Cardinality(failing)]
     IN  IF ~storeUp
         THEN /\ sec' = [sec EXCEPT ![r] = SecCatch(q)]
              /\ UNCHANGED <<xssLastIndex, travLastIndex>>
         ELSE IF IpIsBlacklisted(store, ip)
         THEN /\ sec' = [sec EXCEPT ![r] = Respond(q, 403, "IP_BLACKLISTED")]
              /\ UNCHANGED <<xssLastIndex, travLastIndex>>
         ELSE IF detectSQLInjection(sh)
         THEN /\ sec' = [sec EXCEPT ![r] = [q EXCEPT !.pc = "sqlIncr"]]
              /\ UNCHANGED <<xssLastIndex, travLastIndex>>
         ELSE /\ sec' = [sec EXCEPT ![r] = AfterSql(q, sh, xssLastIndex, travLastIndex)]
              /\ xssLastIndex' = RegExpLastIndex(sh.xss, xssLastIndex)
              /\ travLastIndex' = IF detectXSS(sh, xssLastIndex) THEN travLastIndex
                                  ELSE TravAfter(sh, travLastIndex)
  /\ UNCHANGED <<now, storeUp, store, hist>>
  /\ UNCHANGED notSecEnter

\* a request enters securityMiddleware
SecBegin(r, ip, path, sh) == SecEnter(r, ip, path, sh) /\ UNCHANGED twice

\* a request enters securityMiddleware, and so does, next, a second one with the same data
SentTwice(sh, code) ==
  IF twice.n = 1 THEN [twice EXCEPT !.n = 2, !.code2 = code]
  ELSE [shape |-> sh, n |-> 1, code1 |-> code, code2 |-> ""]
SecBeginTwice(r, ip, path, sh) ==
  /\ twice.n = 1 => sh = twice.shape
  /\ SecEnter(r, ip, path, sh)
  /\ twice' = SentTwice(sh, sec'[r].code)

\* requests of ip that hold a count they have not yet acted on
InFlight(pcs, ip) == Cardinality({x \in Reqs : sec[x].pc \in pcs /\ sec[x].ip = ip})

\* const attempts = await redisClient.incr(suspiciousKey)
SecSqlIncr(r) ==
  /\ sec[r].pc = "sqlIncr"
  /\ IF ~storeUp
     THEN /\ sec' = [sec EXCEPT ![r] = SecCatch(@)]
          /\ UNCHANGED store
     ELSE LET st == RIncr(store, SuspiciousKey(sec[r].ip))
          IN  /\ store' = st
              /\ sec' = [sec EXCEPT ![r].pc = "sqlExpire",
                                    ![r].attempts = st[SuspiciousKey(sec[r].ip)].n]
  /\ hist' = [hist EXCEPT ![sec[r].ip].sqlSinceUnblock = @ + 1]
  /\ UNCHANGED <<now, storeUp, xssLastIndex, travLastIndex>>
  /\ UNCHANGED notSec

\* the SQL-injection requests of an IP answered within one hour of the first
SqlCount(h, t) ==
  IF h.sqlFirst = NoTTL \/ t >= h.sqlFirst + SuspiciousWindowSeconds
  THEN [h EXCEPT !.sqlFirst = t, !.sqlAnswered = 1]
  ELSE [h EXCEPT !.sqlAnswered = @ + 1]

\* the 400 INVALID_REQUEST that ends the SQL branch
SqlAnswer(r) ==
  /\ sec' = [sec EXCEPT ![r] = Respond(@, 400, "INVALID_REQUEST")]
  /\ hist' = [hist EXCEPT ![sec[r].ip] = SqlCount(@, now)]

\* await redisClient.expire(suspiciousKey, 3600); if (attempts >= 5) ...
SecSqlExpire(r) ==
  /\ sec[r].pc = "sqlExpire"
  /\ IF ~storeUp
     THEN /\ sec' = [sec EXCEPT ![r] = SecCatch(@)]
          /\ UNCHANGED <<store, hist>>
     ELSE /\ store' = RExpire(store, SuspiciousKey(sec[r].ip), SuspiciousWindowSeconds, now)
          /\ IF ShouldBlock(sec[r].attempts)
             THEN /\ sec' = [sec EXCEPT ![r].pc = "sqlBlock"]
                  /\ UNCHANGED hist
             ELSE SqlAnswer(r)
  /\ UNCHANGED <<now, storeUp, xssLastIndex, travLastIndex>>
  /\ UNCHANGED notSec

\* await redisClient.setex(`blacklist:ip:${clientIP}`, 86400, 'sql_injection')
SecSqlBlock(r) ==
  /\ sec[r].pc = "sqlBlock"
  /\ IF ~storeUp
     THEN /\ sec' = [sec EXCEPT ![r] = SecCatch(@)]
          /\ UNCHANGED <<store, hist>>
     ELSE /\ store' = RSetEx(store, IpBlacklistKey(sec[r].ip), IpBlacklistSeconds,
                             "sql_injection", now)
          /\ SqlAnswer(r)
  /\ UNCHANGED <<now, storeUp, xssLastIndex, travLastIndex>>
  /\ UNCHANGED notSec

\* the five-minute window, counted from its first request, that a request falls in
WindowOver(h, t) == h.winFirst = NoTTL \/ t >= h.winFirst + SensitiveWindowSeconds
HistCount(h, t) ==
  IF WindowOver(h, t)
  THEN [h EXCEPT !.winFirst = t, !.winSeen = 1, !.winPassed = 0,
                 !.windows = IF @ = 0 THEN 1 ELSE 2]
  ELSE [h EXCEPT !.winSeen = @ + 1]

\* const requests = await redisClient.incr(rateLimitKey)
SecRlIncr(r) ==
  /\ sec[r].pc = "rlIncr"
  /\ IF ~storeUp
     THEN /\ sec' = [sec EXCEPT ![r] = SecCatch(@)]
          /\ UNCHANGED <<store, hist>>
     ELSE LET k == RateLimitKey(sec[r].ip, sec[r].path)
              st == RIncr(store, k)
              h == HistCount(hist[sec[r].ip], now)
          IN  /\ store' = st
              /\ hist' = [hist EXCEPT ![sec[r].ip] = h]
              /\ sec' = [sec EXCEPT ![r].pc = "rlExpire", ![r].requests = st[k].n,
                                    ![r].ord = h.winSeen, ![r].fresh = (h.windows = 1)]
  /\ UNCHANGED <<now, storeUp, xssLastIndex, travLastIndex>>
  /\ UNCHANGED notSec

\* await redisClient.expire(rateLimitKey, 300); if (requests > 10) 429 else steps 9, 10, next()
SecRlExpire(r) ==
  /\ sec[r].pc = "rlExpire"
  /\ IF ~storeUp
     THEN /\ sec' = [sec EXCEPT ![r] = SecCatch(@)]
          /\ UNCHANGED <<store, hist>>
     ELSE /\ store' = RExpire(store, RateLimitKey(sec[r].ip, sec[r].path),
                              SensitiveWindowSeconds, now)
          /\ IF RateExceeded(sec[r].requests)
             THEN /\ sec' = [sec EXCEPT ![r] = Respond(@, 429, "RATE_LIMIT_EXCEEDED")]
                  /\ UNCHANGED hist
             ELSE /\ sec' = [sec EXCEPT ![r] = PassOn(@)]
                  /\ hist' = [hist EXCEPT ![sec[r].ip].winPassed = @ + 1]
  /\ UNCHANGED <<now, storeUp, xssLastIndex, travLastIndex>>
  /\ UNCHANGED notSec

\* the response has been sent and the slot serves the next request
SecRecycle(r) ==
  /\ sec[r].pc = "done"
  /\ sec' = [sec EXCEPT ![r] = IdleSec]
  /\ UNCHANGED <<now, storeUp, store, xssLastIndex, travLastIndex, hist>>
  /\ UNCHANGED notSec

(***************************************************************************)
(* What follows next() for POST /api/auth/login with a wrong password of a *)
(* registered, active user: the gateway's authLimiter, the proxy, the user *)
(* service's authLimiter and the wrong-password branch of the handler.     *)
(* Both limiters count every request of their 15-minute window (longer     *)
(* than the model's horizon) and answer 429 once the count exceeds max; a  *)
(* failed login is not a successful request, so it stays counted.          *)
(***************************************************************************)
LimiterHit(hits, max) == IF hits >= max THEN max + 1 ELSE hits + 1
LimiterBlocks(hits, max) == hits > max

\* a request that securityMiddleware passed on and the login route has not answered
AwaitsLogin(q) == q.pc = "done" /\ q.nextCalled = 1 /\ q.status = 0 /\ q.path = LoginPath

LoginWrongPassword(r) ==
  /\ AwaitsLogin(sec[r])
  /\ LET ip == sec[r].ip
         gw == LimiterHit(authLimiterHits[ip], AuthLimiterMax)
         svc == LimiterHit(serviceLimiterHits, ServiceLimiterMax)
     IN  /\ authLimiterHits' = [authLimiterHits EXCEPT ![ip] = gw]
         /\ IF LimiterBlocks(gw, AuthLimiterMax)
            THEN /\ sec' = [sec EXCEPT ![r].status = 429,
                                       ![r].code = "AUTH_RATE_LIMIT_EXCEEDED"]
                 /\ UNCHANGED serviceLimiterHits
            ELSE /\ serviceLimiterHits' = svc
                 /\ IF LimiterBlocks(svc, ServiceLimiterMax)
                    THEN sec' = [sec EXCEPT ![r].status = 429,
                                            ![r].code = "AUTH_RATE_LIMIT_EXCEEDED"]
                    ELSE sec' = [sec EXCEPT ![r].status = 401,
                                            ![r].code = "INVALID_CREDENTIALS"]
  /\ UNCHANGED <<now, storeUp, store, xssLastIndex, travLastIndex, hist>>
  /\ UNCHANGED notLim

\* await redisClient.del(`blacklist:ip:${ip}`)
unblockIP(ip) ==
  /\ storeUp
  /\ RExists(store, IpBlacklistKey(ip))
  /\ store' = RDel(store, IpBlacklistKey(ip))
  /\ hist' = [hist EXCEPT ![ip].unblocked = TRUE, ![ip].sqlSinceUnblock = 0]
  /\ UNCHANGED <<now, storeUp, xssLastIndex, travLastIndex, sec>>
  /\ UNCHANGED notSec

(***************************************************************************)
(* authMiddleware.                                                         *)
(***************************************************************************)
SignedWithSecret(token) == token = GoodToken
TokenExp(token) == AccessTokenSeconds
TokenUser(token) == "u1"

\* jwt.verify(token, JWT_SECRET): the payload, or the error it throws
jwtVerify(token, clock) ==
  IF ~SignedWithSecret(token) THEN "JsonWebTokenError"
  ELSE IF clock >= TokenExp(token) THEN "TokenExpiredError"
  ELSE "ok"

\* error instanceof jwt.JsonWebTokenError: TokenExpiredError extends it
IsJsonWebTokenError(error) == error \in {"JsonWebTokenError", "TokenExpiredError"}

AuthRespond(q, status, code) ==
  [q EXCEPT !.pc = "done", !.status = status, !.code = code, !.responses = @ + 1]

\* catch (error)
AuthCatch(q, error) ==
  IF IsJsonWebTokenError(error) THEN AuthRespond(q, 401, "INVALID_TOKEN")
  ELSE IF error = "TokenExpiredError" THEN AuthRespond(q, 401, "TOKEN_EXPIRED")
  ELSE AuthRespond(q, 500, "INTERNAL_ERROR")

\* the signature is verified before the blacklist is looked at
AuthAfterGetVerifyFirst(q, listed, clock) ==
  LET verdict == jwtVerify(q.token, clock)
  IN  IF verdict # "ok" THEN AuthCatch([q EXCEPT !.listed = listed], verdict)
      ELSE IF listed
      THEN AuthRespond([q EXCEPT !.listed = listed], 401, "TOKEN_BLACKLISTED")
      ELSE [q EXCEPT !.listed = listed, !.pc = "activeGet"]

\* if (isBlacklisted) 401 TOKEN_BLACKLISTED; const decoded = jwt.verify(...)
AuthAfterGet(q, listed, clock) ==
  LET verdict == jwtVerify(q.token, clock)
      q1 == [q EXCEPT !.listed = listed]
  IN  IF listed THEN AuthRespond(q1, 401, "TOKEN_BLACKLISTED")
      ELSE IF verdict # "ok" THEN AuthCatch(q1, verdict)
      ELSE [q1 EXCEPT !.pc = "activeGet"]

\* const authHeader = req.headers.authorization; 401 MISSING_TOKEN without a Bearer token
AuthBegin(r, header) ==
  /\ auth[r].pc = "idle"
  /\ LET q == [IdleAuth EXCEPT !.token = header,
                               !.revoked = header # NoHeader /\ revoked[header],
                               !.live = header # NoHeader /\ jwtVerify(header, now) = "ok"]
     IN  auth' = [auth EXCEPT ![r] =
                    IF header = NoHeader THEN AuthRespond(q, 401, "MISSING_TOKEN")
                    ELSE [q EXCEPT !.pc = "blGet"]]
  /\ UNCHANGED <<now, storeUp, store, revoked>>
  /\ UNCHANGED notAuth

\* const isBlacklisted = await redisClient.get(`blacklist:${token}`), then jwt.verify
AuthBlacklistGet(r) ==
  /\ auth[r].pc = "blGet"
  /\ auth' = [auth EXCEPT ![r] =
       IF ~storeUp THEN AuthCatch(@, "StoreError")
       ELSE AuthAfterGet(@, RExists(store, TokenBlacklistKey(@.token)), now)]
  /\ UNCHANGED <<now, storeUp, store, revoked>>
  /\ UNCHANGED notAuth

\* const userExists = await redisClient.get(`user:${decoded.userId}:active`);
\* 401 USER_INACTIVE, or req.user = decoded; next()
AuthActiveGet(r) ==
  /\ auth[r].pc = "activeGet"
  /\ LET q == auth[r]
     IN  auth' = [auth EXCEPT ![r] =
           IF ~storeUp THEN AuthCatch(q, "StoreError")
           ELSE IF ~RExists(store, UserActiveKey(TokenUser(q.token)))
           THEN AuthRespond(q, 401, "USER_INACTIVE")
           ELSE [q EXCEPT !.pc = "done", !.active = TRUE, !.user = TokenUser(q.token),
                          !.nextCalled = @ + 1]]
  /\ UNCHANGED <<now, storeUp, store, revoked>>
  /\ UNCHANGED notAuth

AuthRecycle(r) ==
  /\ auth[r].pc = "done"
  /\ auth' = [auth EXCEPT ![r] = IdleAuth]
  /\ UNCHANGED <<now, storeUp, store, revoked>>
  /\ UNCHANGED notAuth

\* await redisClient.setEx(`blacklist:${type}:${value}`, ttlSeconds, reason)
addToBlacklist(type, value, reason, ttlSeconds) ==
  /\ storeUp
  /\ store' = RSetEx(store, TypedBlacklistKey(type, value), ttlSeconds, reason, now)
  /\ revoked' = IF type = "token" THEN [revoked EXCEPT ![value] = TRUE] ELSE revoked
  /\ UNCHANGED <<now, storeUp, auth>>
  /\ UNCHANGED notAuth

\* redisService.setBlacklistedToken(token, ttl): the entry authMiddleware reads
setBlacklistedToken(st, token, ttl, t) == RSetEx(st, TokenBlacklistKey(token), ttl, "true", t)

\* const ttl = decoded.exp - now; if (ttl > 0) await redisService.setBlacklistedToken(token, ttl)
\* (an error of the store is caught and logged)
blacklistToken(token) ==
  LET ttl == TokenExp(token) - now
  IN  /\ IF ttl > 0 /\ storeUp
         THEN /\ store' = setBlacklistedToken(store, token, ttl, now)
              /\ revoked' = [revoked EXCEPT ![token] = TRUE]
         ELSE UNCHANGED <<store, revoked>>
      /\ UNCHANGED <<now, storeUp, auth>>
      /\ UNCHANGED notAuth

\* the flag user:<id>:active is written and removed outside authMiddleware
SetUserActive(userId) ==
  /\ storeUp
  /\ ~RExists(store, UserActiveKey(userId))
  /\ store' = [store EXCEPT ![UserActiveKey(userId)] = [n |-> 0, s |-> "1", exp |-> NoTTL]]
  /\ UNCHANGED <<now, storeUp, auth, revoked>>
  /\ UNCHANGED notAuth

ClearUserActive(userId) ==
  /\ storeUp
  /\ RExists(store, UserActiveKey(userId))
  /\ store' = RDel(store, UserActiveKey(userId))
  /\ UNCHANGED <<now, storeUp, auth, revoked>>
  /\ UNCHANGED notAuth

\* the connection to the store is lost, and comes back
StoreDown ==
  /\ storeUp
  /\ storeUp' = FALSE
  /\ UNCHANGED <<now, store, secVars, limVars, authVars, rlVars, perm, restVars, twice>>

StoreUp ==
  /\ ~storeUp
  /\ storeUp' = TRUE
  /\ UNCHANGED <<now, store, secVars, limVars, authVars, rlVars, perm, restVars, twice>>

(***************************************************************************)
(* incrementRateLimit and checkRateLimit, for one key whose caller always  *)
(* passes the same limit and window.                                       *)
(***************************************************************************)
Limits == 1..MaxLimit
Windows == {TickSeconds, 2 * TickSeconds}

\* allowed: current <= limit
AllowedStrict(current, limit) == current < limit
Allowed(current, limit) == current <= limit
\* remaining: Math.max(0, limit - current)
Remaining(current, limit) == IF limit - current > 0 THEN limit - current ELSE 0

\* catch (error): return { allowed: true, remaining: limit, ... }
FailOpen(q, limit) ==
  [q EXCEPT !.pc = "done", !.allowed = TRUE, !.remaining = limit, !.failed = TRUE]

\* redisClient.ttl(key): -2 without the key, -1 without an expiry
RTtl(st, k, t) ==
  IF st[k] = Absent THEN 0 - 2 ELSE IF st[k].exp = NoTTL THEN NoTTL ELSE st[k].exp - t

\* the window of the caller's key that a call falls in, counted from its first call
CallCount(h, t, window) ==
  IF h.winFirst = NoTTL \/ t >= h.winFirst + window
  THEN [winFirst |-> t, winSeen |-> 1]
  ELSE [h EXCEPT !.winSeen = @ + 1]

\* checkRateLimit(key, limit, windowSeconds) is called
RlBegin(c, limit, window) ==
  /\ rl[c].pc = "idle"
  /\ rlCfg \in {NoCfg, [limit |-> limit, window |-> window]}
  /\ rlCfg' = [limit |-> limit, window |-> window]
  /\ rl' = [rl EXCEPT ![c] = [IdleCall EXCEPT !.pc = "incr"]]
  /\ UNCHANGED <<now, storeUp, store, rlHist>>
  /\ UNCHANGED notRl

\* const current = await redisClient.incr(key)
RlIncr(c) ==
  /\ rl[c].pc = "incr"
  /\ IF ~storeUp
     THEN /\ rl' = [rl EXCEPT ![c] = FailOpen(@, rlCfg.limit)]
          /\ UNCHANGED <<store, rlHist>>
     ELSE LET st == RIncr(store, CallerKey)
              h == CallCount(rlHist, now, rlCfg.window)
          IN  /\ store' = st
              /\ rlHist' = h
              /\ rl' = [rl EXCEPT ![c].current = st[CallerKey].n, ![c].ord = h.winSeen,
                                  ![c].pc = IF st[CallerKey].n = 1 THEN "expire" ELSE "ttl"]
  /\ UNCHANGED <<now, storeUp, rlCfg>>
  /\ UNCHANGED notRl

\* if (current === 1) await redisClient.expire(key, windowSeconds)
RlExpire(c) ==
  /\ rl[c].pc = "expire"
  /\ IF ~storeUp
     THEN /\ rl' = [rl EXCEPT ![c] = FailOpen(@, rlCfg.limit)]
          /\ UNCHANGED store
     ELSE /\ store' = RExpire(store, CallerKey, rlCfg.window, now)
          /\ rl' = [rl EXCEPT ![c].pc = "ttl"]
  /\ UNCHANGED <<now, storeUp, rlCfg, rlHist>>
  /\ UNCHANGED notRl

\* const ttl = await redisClient.ttl(key); return { allowed, remaining, resetTime }
RlTtl(c) ==
  /\ rl[c].pc = "ttl"
  /\ LET q == rl[c]
     IN  rl' = [rl EXCEPT ![c] =
           IF ~storeUp THEN FailOpen(q, rlCfg.limit)
           ELSE [q EXCEPT !.pc = "done", !.ttl = RTtl(store, CallerKey, now),
                          !.allowed = Allowed(q.current, rlCfg.limit),
                          !.remaining = Remaining(q.current, rlCfg.limit)]]
  /\ UNCHANGED <<now, storeUp, store, rlCfg, rlHist>>
  /\ UNCHANGED notRl

RlRecycle(c) ==
  /\ rl[c].pc = "done"
  /\ rl' = [rl EXCEPT ![c] = IdleCall]
  /\ UNCHANGED <<now, storeUp, store, rlCfg, rlHist>>
  /\ UNCHANGED notRl

\* a call is admitted while the counter stays below the model's cap
AdmitCall ==
  store[CallerKey].n + Cardinality({c \in Reqs : rl[c].pc = "incr"}) < MaxCalls

(***************************************************************************)
(* Permission checks.  A permission is the sequence of its colon-separated *)
(* segments: 'financial:read' is <<"financial", "read">>.                  *)
(***************************************************************************)
PermissionNames ==
  {<<"financial", "read">>, <<"financial", "pay">>, <<"financial", "read", "own">>,
   <<"financial", "*">>, <<"financial", "read", "*">>, <<"security", "read">>,
   <<"admin", "*">>}
Roles == {"ADMIN", "SINDICO"}

\* parts.slice(0, i).join(':') + ':*'
Wildcard(parts, i) == Append(SubSeq(parts, 1, i), "*")

\* user service: exact permission, then the wildcards of every prefix, then 'admin:*'
hasPermission(userPermissions, requiredPermission) ==
  \/ requiredPermission \in userPermissions
  \/ \E i \in 1..Len(requiredPermission) :
       Wildcard(requiredPermission, i) \in userPermissions
  \/ <<"admin", "*">> \in userPermissions

\* gateway: user.permissions.includes(permission) || user.role === 'ADMIN'
gatewayHasPermission(user, permission) ==
  permission \in user.permissions \/ user.role = "ADMIN"

\* gateway: requirePermission(permission)(req, res, next)
requirePermission(q, permission) ==
  IF ~q.user
  THEN [q EXCEPT !.status = 401, !.code = "NOT_AUTHENTICATED"]
  ELSE IF permission \notin q.permissions
  THEN [q EXCEPT !.status = 403, !.code = "MISSING_PERMISSION"]
  ELSE [q EXCEPT !.nextCalled = @ + 1]

\* one request through requirePermission, and the two helpers asked the same question
PermCheck(user, role, permissions, permission) ==
  /\ LET q == [IdlePerm EXCEPT !.user = user, !.role = role,
                               !.permissions = permissions, !.permission = permission]
     IN  perm' = [requirePermission(q, permission) EXCEPT
                    !.gateway = gatewayHasPermission(q, permission),
                    !.service = hasPermission(permissions, permission)]
  /\ UNCHANGED notPerm

(***************************************************************************)
(* requireBuildingAccess.                                                  *)
(***************************************************************************)
BuildingIds == {"b1", "b2"}
BuildingRoles == {"ADMIN", "SINDICO", "MORADOR"}
\* what a buildingId claim, route parameter or body field can hold
ClaimValues == BuildingIds \cup {Undefined, Null}
FieldValues == BuildingIds \cup {Undefined, ""}

\* a || b of JavaScript, on the values above
Truthy(v) == v \notin {Undefined, Null, ""}
OrElse(a, b) == IF Truthy(a) THEN a ELSE b

\* requireBuildingAccess(req, res, next)
requireBuildingAccess(q) ==
  LET buildingId == OrElse(q.params, q.body)
  IN  IF ~q.user
      THEN [q EXCEPT !.status = 401, !.code = "NOT_AUTHENTICATED"]
      ELSE IF q.role = "ADMIN"
      THEN [q EXCEPT !.nextCalled = @ + 1]
      ELSE IF q.claim # buildingId
      THEN [q EXCEPT !.status = 403, !.code = "BUILDING_ACCESS_DENIED"]
      ELSE [q EXCEPT !.nextCalled = @ + 1]

\* one request through requireBuildingAccess
BuildingCheck(user, role, claim, params, body) ==
  /\ bld' = requireBuildingAccess([IdleBld EXCEPT !.user = user, !.role = role,
                                     !.claim = claim, !.params = params, !.body = body])
  /\ UNCHANGED notBld

(***************************************************************************)
(* optionalAuth.                                                           *)
(***************************************************************************)
\* whether authMiddleware lets a request with this token through to next()
AuthWouldAccept(token, st, up, clock) ==
  /\ token # NoHeader
  /\ up
  /\ AuthAfterGet([IdleAuth EXCEPT !.token = token],
                  RExists(st, TokenBlacklistKey(token)), clock).pc = "activeGet"
  /\ RExists(st, UserActiveKey(TokenUser(token)))

\* next() without req.user
OptAnonymous(q) == [q EXCEPT !.pc = "done", !.nextCalled = @ + 1]

\* if (!authHeader || !authHeader.startsWith('Bearer ')) { next(); return; }
OptBegin(header) ==
  /\ opt.pc = "idle"
  /\ opt' = IF header = NoHeader THEN OptAnonymous([IdleOpt EXCEPT !.token = header])
            ELSE [IdleOpt EXCEPT !.token = header, !.pc = "blGet"]
  /\ UNCHANGED <<now, storeUp, store>>
  /\ UNCHANGED notOpt

\* await redisClient.get(`blacklist:${token}`); jwt.verify; req.user = decoded; next()
\* catch (error) { next(); }
OptBlacklistGet ==
  /\ opt.pc = "blGet"
  /\ LET q == [opt EXCEPT !.accept = AuthWouldAccept(opt.token, store, storeUp, now)]
     IN  opt' =
           IF ~storeUp THEN OptAnonymous(q)
           ELSE IF RExists(store, TokenBlacklistKey(q.token)) THEN OptAnonymous(q)
           ELSE IF jwtVerify(q.token, now) # "ok" THEN OptAnonymous(q)
           ELSE [q EXCEPT !.pc = "done", !.user = TokenUser(q.token),
                          !.nextCalled = @ + 1]
  /\ UNCHANGED <<now, storeUp, store>>
  /\ UNCHANGED notOpt

OptRecycle ==
  /\ opt.pc = "done"
  /\ opt' = IdleOpt
  /\ UNCHANGED <<now, storeUp, store>>
  /\ UNCHANGED notOpt

(***************************************************************************)
(* auditMiddleware.  A path is the sequence of its segments.               *)
(***************************************************************************)
GDPR_RELEVANT_ENDPOINTS ==
  {<<"api", "users">>, <<"api", "residents">>, <<"api", "professionals">>,
   <<"api", "payments">>, <<"api", "communications">>, <<"api", "assemblies", "votes">>}
FINANCIAL_DATA_ENDPOINTS ==
  {<<"api", "payments">>, <<"api", "finances">>, <<"api", "invoices">>,
   <<"api", "transactions">>}
adminPaths ==
  {<<"api", "admin">>, <<"api", "users", "admin">>, <<"api", "buildings", "admin">>,
   <<"api", "system">>}

StartsWith(path, prefix) ==
  Len(prefix) <= Len(path) /\ SubSeq(path, 1, Len(prefix)) = prefix
Includes(path, segment) == \E i \in 1..Len(path) : path[i] = segment

isAdministrativeAction(path, method) ==
  \/ \E adminPath \in adminPaths : StartsWith(path, adminPath)
  \/ method = "DELETE" /\ ~Includes(path, "logout")

AuditPaths ==
  {<<"api", "users">>, <<"api", "payments">>, <<"api", "buildings">>, <<"api", "admin">>}
AuditMethods == {"GET", "DELETE"}

\* a request that securityMiddleware handed to next()
PassedOn(q) == q.pc = "done" /\ q.nextCalled = 1

\* the middleware itself: classification of the request, the finish listener, next()
AuditBegin(r, path, method, personalInRequest) ==
  /\ PassedOn(sec[r])
  /\ aud.pc = "idle"
  /\ aud.id < MaxAudits
  /\ aud' = [IdleAud EXCEPT
               !.pc = "handler", !.id = aud.id + 1, !.path = path, !.method = method,
               !.isGDPRRelevant = \E e \in GDPR_RELEVANT_ENDPOINTS : StartsWith(path, e),
               !.isFinancialData = \E e \in FINANCIAL_DATA_ENDPOINTS : StartsWith(path, e),
               !.accessesPersonalData = personalInRequest,
               !.nextCalled = 1]
  /\ UNCHANGED <<lists, fetched>>
  /\ UNCHANGED notAud

\* the sub-record writers the finish handler calls after saveAuditLog
Applies(q, w) ==
  CASE w = 1 -> TRUE
    [] w = 2 -> q.personal /\ q.isGDPRRelevant
    [] w = 3 -> q.isFinancialData
    [] w = 4 -> isAdministrativeAction(q.path, q.method)
AfterWriter(q) ==
  LET later == {j \in 1..4 : j > q.w /\ Applies(q, j)}
  IN  IF later = {} THEN [q EXCEPT !.pc = "done"]
      ELSE [q EXCEPT !.pc = "push", !.w = CHOOSE j \in later : \A i \in later : j <= i]

\* what a writer without the catch would do: the rejection ends the finish handler
AuditUncaught(q) == [q EXCEPT !.errors = @ + 1, !.pc = "done"]
\* catch (error) { logger.error(...) } of a writer: the writer returns normally
AuditCaught(q) == AfterWriter([q EXCEPT !.errors = @ + 1])

\* the route (or a middleware after this one) answers; 'finish' fires and
\* the handler builds the record
AuditRespond(status, userId, personalInResponse) ==
  /\ aud.pc = "handler"
  /\ aud' = AfterWriter([aud EXCEPT
               !.status = status, !.userId = userId, !.responses = @ + 1,
               !.personal = aud.accessesPersonalData \/ personalInResponse])
  /\ UNCHANGED <<lists, fetched>>
  /\ UNCHANGED notAud

\* JSON.stringify of what the writer at work stores
AuditRecord(q) ==
  IF q.w = 1
  THEN [id |-> q.id, userId |-> q.userId, statusCode |-> q.status,
        personalDataAccessed |-> q.personal, financialDataAccessed |-> q.isFinancialData,
        gdprRelevant |-> q.isGDPRRelevant]
  ELSE [auditId |-> q.id, userId |-> q.userId]

\* await redisClient.lpush(key, ...) of the writer at work
AuditPush ==
  /\ aud.pc = "push"
  /\ LET q == [aud EXCEPT !.ran = @ \cup {aud.w}, !.accesses = @ + 1]
     IN  IF storeUp
         THEN /\ lists' = LPush(lists, <<Writers[aud.w], DateOf(now)>>, AuditRecord(aud))
              /\ aud' = [q EXCEPT !.pc = "expire", !.pushed[Writers[aud.w]] = @ + 1]
         ELSE /\ aud' = AuditCaught(q)
              /\ UNCHANGED lists
  /\ UNCHANGED fetched
  /\ UNCHANGED notAud

\* await redisClient.expire(key, ...) of the writer at work
AuditExpire ==
  /\ aud.pc = "expire"
  /\ LET q == [aud EXCEPT !.accesses = @ + 1]
     IN  IF storeUp
         THEN /\ lists' = LExpire(lists, <<Writers[aud.w], DateOf(now)>>, WriterTtl[aud.w], now)
              /\ aud' = AfterWriter(q)
         ELSE /\ aud' = AuditCaught(q)
              /\ UNCHANGED lists
  /\ UNCHANGED fetched
  /\ UNCHANGED notAud

\* the finish handler has returned and the next request gets the next auditId
AuditRecycle ==
  /\ aud.pc = "done"
  /\ \A r \in Reqs : sec[r].pc = "idle"
  /\ aud' = [IdleAud EXCEPT !.id = aud.id]
  /\ UNCHANGED <<lists, fetched>>
  /\ UNCHANGED notAud

getAuditLogs(date, limit) ==
  /\ fetched' = IF storeUp THEN LRange(lists, <<"audit", date>>, limit - 1) ELSE <<>>
  /\ UNCHANGED <<aud, lists>>
  /\ UNCHANGED notAud

RECURSIVE GdprScan(_, _, _)
\* the loop over the keys of the last 30 days, the newest first
GdprScan(i, today, userId) ==
  IF i >= GdprLookbackDays THEN <<>>
  ELSE LET date == today - i
           logs == IF date \in AuditDates THEN LRange(lists, <<"gdpr", date>>, -1) ELSE <<>>
       IN  SelectSeq(logs, LAMBDA log : log.userId = userId)
             \o GdprScan(i + 1, today, userId)
getGDPRLogs(userId, limit) ==
  /\ fetched' = IF storeUp
                THEN LET allLogs == GdprScan(0, DateOf(now), userId)
                     IN  SubSeq(allLogs, 1, IF limit < Len(allLogs) THEN limit
                                            ELSE Len(allLogs))
                ELSE <<>>
  /\ UNCHANGED <<aud, lists>>
  /\ UNCHANGED notAud

(***************************************************************************)
(* generateTokens of the user service.  A permission is written as in the  *)
(* source, 'financial:read'; a permission list is the set of its entries.  *)
(***************************************************************************)
basePermissions ==
  [ADMIN |-> {"admin:*", "user:*", "building:*", "financial:*", "communication:*",
              "assembly:*", "marketplace:*", "professional:*", "security:*"},
   SINDICO |-> {"user:read", "user:update", "building:read", "building:update",
                "financial:*", "communication:*", "assembly:*", "marketplace:read",
                "professional:read", "security:read"},
   MORADOR |-> {"user:read:own", "user:update:own", "building:read", "financial:read:own",
                "financial:pay", "communication:read", "communication:send",
                "assembly:read", "assembly:vote", "marketplace:*", "professional:read"},
   PROFISSIONAL |-> {"user:read:own", "user:update:own", "professional:*",
                     "communication:read", "communication:send", "marketplace:read"}]

\* basePermissions is an object literal: a key that is not its own is looked
\* up in Object.prototype, whose members are functions and objects, all truthy
ObjectPrototypeKeys ==
  {"constructor", "toString", "valueOf", "hasOwnProperty", "isPrototypeOf",
   "propertyIsEnumerable", "toLocaleString", "__proto__"}
\* the value found there, which is no list of permissions
Inherited(key) == {"Object.prototype." \o key}

\* return basePermissions[role] || []
getUserPermissions(role, buildingId) ==
  IF role \in DOMAIN basePermissions THEN basePermissions[role]
  ELSE IF role \in ObjectPrototypeKeys THEN Inherited(role)
  ELSE {}

\* the roles of the users of the model: those of the mapping, one that is
\* unknown, and one that names a member of Object.prototype
UserRoles == DOMAIN basePermissions \cup {"GUEST", "constructor"}
\* user objects: permissions is a field the object may carry from the request
UserObjects ==
  [id : {"u1", "u2"}, role : UserRoles, buildingId : {Undefined, "b1"},
   permissions : {{}, {"admin:*"}}]

\* the payload generateTokens signs into the access token
accessPayload(user) ==
  [userId |-> user.id, role |-> user.role, buildingId |-> user.buildingId,
   permissions |-> getUserPermissions(user.role, user.buildingId)]

generateTokens(user) ==
  /\ gen' = IF gen.n = 1
            THEN [gen EXCEPT !.n = 2, !.second = accessPayload(user)]
            ELSE [NoneIssued EXCEPT !.n = 1, !.first = accessPayload(user)]
  /\ UNCHANGED notGen

(***************************************************************************)
(* The authentication routes of the user service.                          *)
(***************************************************************************)
\* speakeasy.totp.verify
totpVerify(userId, twoFactorCode) == twoFactorCode = "totp-good"

\* an answer that is 200 whatever the handler decided
UserRespondOk(q, status, code) == [q EXCEPT !.status = 200, !.code = code]
UserRespond(q, status, code) == [q EXCEPT !.status = status, !.code = code]

\* POST /login
Login(email, password, twoFactorCode) ==
  LET user == findByEmail(email)
      found == user # NoUser
      active == found /\ isActive[user]
      passwordValid == found /\ verifyPassword(password, passwords[user])
      verified == found /\ userRows[user].emailVerified
      twoFactor == found /\ userRows[user].twoFactorEnabled
      codeValid == found /\ totpVerify(user, twoFactorCode)
      pair == signTokens(user, now)
      q == [NoResponse EXCEPT !.op = "login", !.userId = user, !.found = found,
                              !.active = active, !.passwordValid = passwordValid,
                              !.verified = verified, !.twoFactor = twoFactor,
                              !.codeValid = codeValid,
                              !.storedBefore = IF found THEN refreshTokens[user] ELSE NoToken,
                              !.storedAfter = IF found THEN refreshTokens[user] ELSE NoToken]
  IN  IF ~found THEN
        /\ resp' = UserRespond(q, 401, "INVALID_CREDENTIALS")
        /\ UNCHANGED <<failedLogins, refreshTokens, issued>>
      ELSE IF ~active THEN
        /\ resp' = UserRespond(q, 401, "ACCOUNT_DISABLED")
        /\ UNCHANGED <<failedLogins, refreshTokens, issued>>
      ELSE IF ~passwordValid THEN
        /\ failedLogins[user] < MaxFailed
        /\ failedLogins' = [failedLogins EXCEPT ![user] = @ + 1]
        /\ resp' = UserRespond(q, 401, "INVALID_CREDENTIALS")
        /\ UNCHANGED <<refreshTokens, issued>>
      ELSE IF ~verified THEN
        /\ resp' = UserRespond(q, 401, "EMAIL_NOT_VERIFIED")
        /\ UNCHANGED <<failedLogins, refreshTokens, issued>>
      ELSE IF twoFactor /\ twoFactorCode = NoCode THEN
        /\ resp' = UserRespond(q, 200, "requiresTwoFactor")
        /\ UNCHANGED <<failedLogins, refreshTokens, issued>>
      ELSE IF twoFactor /\ ~codeValid THEN
        /\ resp' = UserRespond(q, 401, "INVALID_2FA_CODE")
        /\ UNCHANGED <<failedLogins, refreshTokens, issued>>
      ELSE
        /\ issued' = issued \cup {pair.accessToken, pair.refreshToken}
        /\ IF storeUp THEN
             /\ refreshTokens' = [refreshTokens EXCEPT ![user] = pair.refreshToken]
             /\ failedLogins' = [failedLogins EXCEPT ![user] = 0]
             /\ resp' = UserRespond([q EXCEPT !.generated = TRUE, !.tokens = pair,
                                              !.storedAfter = pair.refreshToken], 200, "")
           ELSE
             /\ resp' = UserRespond([q EXCEPT !.generated = TRUE], 500, "LOGIN_ERROR")
             /\ UNCHANGED <<failedLogins, refreshTokens>>

LoginRequest(email, password, twoFactorCode) ==
  /\ Login(email, password, twoFactorCode)
  /\ UNCHANGED <<now, storeUp, passwords, isActive, tokenBlacklist, stale, redeemed, rf>>
  /\ UNCHANGED notUser

\* POST /refresh: verifyRefreshToken, then redisService.getRefreshToken and
\* the comparison with the presented token
RefreshBegin(r, refreshToken) ==
  /\ rf[r].pc = "idle"
  /\ LET userId == verifyRefreshToken(refreshToken, now)
         q == [IdleRefresh EXCEPT !.token = refreshToken, !.userId = userId,
                                  !.wasRedeemed = refreshToken \in redeemed,
                                  !.wasStale = refreshToken \in stale]
         done(status, code) == [q EXCEPT !.pc = "done", !.status = status, !.code = code]
     IN  rf' = [rf EXCEPT ![r] =
                 IF userId = NoUser THEN done(401, "INVALID_REFRESH_TOKEN")
                 ELSE IF ~storeUp THEN done(500, "REFRESH_ERROR")
                 ELSE IF refreshTokens[userId] # refreshToken
                      THEN done(401, "INVALID_REFRESH_TOKEN")
                 ELSE [q EXCEPT !.pc = "find"]]
  /\ UNCHANGED <<now, storeUp, passwords, isActive, failedLogins, refreshTokens,
                 tokenBlacklist, issued, stale, redeemed, resp>>
  /\ UNCHANGED notUser

\* userService.findById, generateTokens, redisService.setRefreshToken
RefreshFinish(r) ==
  /\ rf[r].pc = "find"
  /\ LET q == rf[r]
         pair == signTokens(q.userId, now)
         done(status, code) == [q EXCEPT !.pc = "done", !.status = status, !.code = code]
     IN  IF ~isActive[q.userId] THEN
           /\ rf' = [rf EXCEPT ![r] = done(401, "USER_NOT_FOUND")]
           /\ UNCHANGED <<refreshTokens, issued, redeemed>>
         ELSE
           /\ issued' = issued \cup {pair.accessToken, pair.refreshToken}
           /\ IF storeUp THEN
                /\ refreshTokens' = [refreshTokens EXCEPT ![q.userId] = pair.refreshToken]
                /\ redeemed' = redeemed \cup {q.token}
                /\ rf' = [rf EXCEPT ![r] =
                           [done(200, "") EXCEPT !.tokens = pair,
                                                 !.again = q.token \in redeemed]]
              ELSE
                /\ rf' = [rf EXCEPT ![r] = done(500, "REFRESH_ERROR")]
                /\ UNCHANGED <<refreshTokens, redeemed>>
  /\ UNCHANGED <<now, storeUp, passwords, isActive, failedLogins, tokenBlacklist, stale,
                 resp>>
  /\ UNCHANGED notUser

\* the response has been sent
RefreshRecycle(r) ==
  /\ rf[r].pc = "done"
  /\ rf' = [rf EXCEPT ![r] = IdleRefresh]
  /\ UNCHANGED <<now, storeUp, passwords, isActive, failedLogins, refreshTokens,
                 tokenBlacklist, issued, stale, redeemed, resp>>
  /\ UNCHANGED notUser

\* blacklistToken of the user service: jwt.decode does not verify; a store
\* failure is caught inside
userBlacklistToken(token) ==
  IF token # NoToken /\ token.iat + AccessTokenSeconds - now > 0 /\ storeUp
  THEN tokenBlacklist \cup {token} ELSE tokenBlacklist

\* POST /logout
Logout(accessToken, refreshToken) ==
  /\ tokenBlacklist' = userBlacklistToken(accessToken)
  /\ LET userId == IF refreshToken = NoToken THEN NoUser
                   ELSE verifyRefreshToken(refreshToken, now)
         q == [NoResponse EXCEPT !.op = "logout", !.userId = userId,
                                 !.presented = refreshToken,
                                 !.storedBefore =
                                   IF userId # NoUser THEN refreshTokens[userId] ELSE NoToken,
                                 !.storedAfter =
                                   IF userId # NoUser THEN refreshTokens[userId] ELSE NoToken]
     IN  IF userId = NoUser THEN
           /\ resp' = UserRespond(q, 200, "")
           /\ UNCHANGED refreshTokens
         ELSE IF ~storeUp THEN
           /\ resp' = UserRespond(q, 500, "LOGOUT_ERROR")
           /\ UNCHANGED refreshTokens
         ELSE
           /\ refreshTokens' = [refreshTokens EXCEPT ![userId] = NoToken]
           /\ resp' = UserRespond([q EXCEPT !.storedAfter = NoToken], 200, "")
  /\ UNCHANGED <<now, storeUp, passwords, isActive, failedLogins, issued, stale, redeemed,
                 rf>>
  /\ UNCHANGED notUser

\* POST /reset-password
ResetPassword(token, newPassword) ==
  /\ LET user == findByPasswordResetToken(token)
         q == [NoResponse EXCEPT !.op = "reset-password", !.userId = user,
                                 !.found = user # NoUser]
     IN  IF user = NoUser THEN
           /\ resp' = UserRespond(q, 400, "INVALID_RESET_TOKEN")
           /\ UNCHANGED <<passwords, refreshTokens, stale>>
         ELSE
           /\ passwords' = [passwords EXCEPT ![user] = hashPassword(newPassword)]
           /\ IF storeUp THEN
                /\ refreshTokens' = [refreshTokens EXCEPT ![user] = NoToken]
                /\ stale' = stale \cup {t \in issued : t.userId = user}
                /\ resp' = UserRespond(q, 200, "")
              ELSE
                /\ resp' = UserRespond(q, 500, "RESET_PASSWORD_ERROR")
                /\ UNCHANGED <<refreshTokens, stale>>
  /\ UNCHANGED <<now, storeUp, isActive, failedLogins, tokenBlacklist, issued, redeemed, rf>>
  /\ UNCHANGED notUser

\* an administrator deactivates or reactivates an account
SetIsActive(userId, value) ==
  /\ isActive[userId] # value
  /\ isActive' = [isActive EXCEPT ![userId] = value]
  /\ UNCHANGED <<now, storeUp, passwords, failedLogins, refreshTokens, tokenBlacklist,
                 issued, stale, redeemed, rf, resp>>
  /\ UNCHANGED notUser

(***************************************************************************)
(* The sanitizers: sanitizeObject of securityMiddleware (step 9) and        *)
(* sanitizeObject of sanitizeInput in the user service.  String.replace    *)
(* with a global pattern scans the string once, left to right, and what it *)
(* removes is not scanned again.                                           *)
(***************************************************************************)
\* the i flag, on the letters of the model that have an upper case
Lower(c) == IF c = "V" THEN "v" ELSE IF c = "B" THEN "b" ELSE c
Whitespace == {" "}
\* \w
WordChars == {"j", "a", "v", "s", "c", "r", "i", "p", "t", "o", "n", "x", "b", "V", "B"}

JavascriptPattern == <<"j", "a", "v", "a", "s", "c", "r", "i", "p", "t", ":">>
VbscriptPattern == <<"v", "b", "s", "c", "r", "i", "p", "t", ":">>

\* whether the literal pattern matches at index i, ignoring case
MatchesAt(str, i, pattern) ==
  /\ i + Len(pattern) - 1 <= Len(str)
  /\ \A k \in 1..Len(pattern) : Lower(str[i + k - 1]) = pattern[k]
ContainsPattern(str, pattern) == \E i \in 1..Len(str) : MatchesAt(str, i, pattern)

\* str.replace(/[<>]/g, '')
RemoveAngles(str) == SelectSeq(str, LAMBDA c : c \notin {"<", ">"})

\* str.replace(/javascript:/gi, ''), str.replace(/vbscript:/gi, '')
RECURSIVE RemoveFrom(_, _, _)
RemoveFrom(str, i, pattern) ==
  IF i > Len(str) THEN <<>>
  ELSE IF MatchesAt(str, i, pattern) THEN RemoveFrom(str, i + Len(pattern), pattern)
  ELSE <<str[i]>> \o RemoveFrom(str, i + 1, pattern)
RemovePattern(str, pattern) == RemoveFrom(str, 1, pattern)

\* the length of the longest run of characters of `class` that starts at index i
RECURSIVE Run(_, _, _)
Run(str, i, class) ==
  IF i <= Len(str) /\ str[i] \in class THEN 1 + Run(str, i + 1, class) ELSE 0

\* /on\w+\s*=/gi at index i: the index after the match, or 0
HandlerEnd(str, i) ==
  IF i + 1 <= Len(str) /\ Lower(str[i]) = "o" /\ Lower(str[i + 1]) = "n"
  THEN LET w == Run(str, i + 2, WordChars)
           sp == Run(str, i + 2 + w, Whitespace)
           eq == i + 2 + w + sp
       IN  IF w >= 1 /\ eq <= Len(str) /\ str[eq] = "=" THEN eq + 1 ELSE 0
  ELSE 0
\* str.replace(/on\w+\s*=/gi, '')
RECURSIVE RemoveHandlersFrom(_, _)
RemoveHandlersFrom(str, i) ==
  IF i > Len(str) THEN <<>>
  ELSE IF HandlerEnd(str, i) > 0 THEN RemoveHandlersFrom(str, HandlerEnd(str, i))
  ELSE <<str[i]>> \o RemoveHandlersFrom(str, i + 1)
RemoveHandlers(str) == RemoveHandlersFrom(str, 1)

\* str.trim()
Trim(str) ==
  LET kept == {i \in 1..Len(str) : str[i] \notin Whitespace}
  IN  IF kept = {} THEN <<>>
      ELSE SubSeq(str, CHOOSE i \in kept : \A j \in kept : i <= j,
                       CHOOSE i \in kept : \A j \in kept : i >= j)

\* the string branch of the gateway's sanitizeObject
gatewaySanitizeString(str) ==
  Trim(RemovePattern(RemovePattern(RemoveAngles(str), JavascriptPattern), VbscriptPattern))
\* the string branch of the user service's sanitizeObject
userSanitizeString(str) ==
  RemoveHandlers(RemovePattern(RemovePattern(RemoveAngles(Trim(str)), JavascriptPattern),
                               VbscriptPattern))

\* sanitizeObject of securityMiddleware: strings, arrays, objects (keys kept)
RECURSIVE sanitizeObject(_)
sanitizeObject(obj) ==
  IF obj.kind = "string" THEN StringValue(gatewaySanitizeString(obj.s))
  ELSE [obj EXCEPT !.items = [i \in DOMAIN obj.items |-> sanitizeObject(obj.items[i])]]

\* sanitizeObject of sanitizeInput: the keys of an object lose < and > and are
\* trimmed, and an entry whose key becomes empty is dropped
RECURSIVE sanitizeInput(_)
sanitizeInput(obj) ==
  IF obj.kind = "string" THEN StringValue(userSanitizeString(obj.s))
  ELSE IF obj.kind = "array"
  THEN [obj EXCEPT !.items = [i \in DOMAIN obj.items |-> sanitizeInput(obj.items[i])]]
  ELSE LET sanitizedKey(i) == Trim(RemoveAngles(obj.keys[i]))
           keep == SelectSeq([i \in DOMAIN obj.keys |-> i], LAMBDA i : sanitizedKey(i) # <<>>)
       IN  ObjectValue([n \in DOMAIN keep |-> sanitizedKey(keep[n])],
                       [n \in DOMAIN keep |-> sanitizeInput(obj.items[keep[n]])])

\* the string values of a value, at any depth
RECURSIVE StringsOf(_)
StringsOf(obj) ==
  IF obj.kind = "string" THEN {obj.s}
  ELSE UNION {StringsOf(obj.items[i]) : i \in DOMAIN obj.items}

\* detectXSS on the request data, as far as the strings of the model go: the
\* patterns /javascript:/gi and /vbscript:/gi, tested from lastIndex 0
xssDetects(obj) ==
  \E str \in StringsOf(obj) :
    ContainsPattern(str, JavascriptPattern) \/ ContainsPattern(str, VbscriptPattern)

\* req.body = sanitizeObject(req.body), in the gateway and in the user service
Sanitizers == {"securityMiddleware", "sanitizeInput"}
ApplySanitizer(fn, obj) == IF fn = "securityMiddleware" THEN sanitizeObject(obj) ELSE sanitizeInput(obj)
Sanitize(fn, body) ==
  /\ san' = [fn |-> fn, input |-> body, output |-> ApplySanitizer(fn, body),
             again |-> ApplySanitizer(fn, ApplySanitizer(fn, body)),
             detected |-> xssDetects(body)]
  /\ UNCHANGED notSan

(***************************************************************************)
(* errorHandler of the gateway.                                            *)
(***************************************************************************)
defaultCodes ==
  [s \in {400, 401, 403, 404, 409, 422, 429, 500, 502, 503, 504} |->
     CASE s = 400 -> "BAD_REQUEST" [] s = 401 -> "UNAUTHORIZED" [] s = 403 -> "FORBIDDEN"
       [] s = 404 -> "NOT_FOUND" [] s = 409 -> "CONFLICT" [] s = 422 -> "UNPROCESSABLE_ENTITY"
       [] s = 429 -> "TOO_MANY_REQUESTS" [] s = 500 -> "INTERNAL_SERVER_ERROR"
       [] s = 502 -> "BAD_GATEWAY" [] s = 503 -> "SERVICE_UNAVAILABLE"
       [] s = 504 -> "GATEWAY_TIMEOUT"]
getDefaultErrorCode(statusCode) ==
  IF statusCode \in DOMAIN defaultCodes THEN defaultCodes[statusCode] ELSE "UNKNOWN_ERROR"

\* the errors of the model: the classes of the taxonomy, errors thrown by
\* libraries (with or without a statusCode, never isOperational), and errors
\* with a code of their own
ErrorStatusCodes == {NoStatusCode, 400, 401, 418, 500, 503}
ErrorCodes == {NoErrorCode, "VALIDATION_ERROR", "ENTITY_PARSE_FAILED"}
Errors == [statusCode : ErrorStatusCodes, code : ErrorCodes, isOperational : BOOLEAN]

\* what errorHandler logs, whether it calls notifyCriticalError, and its answer
handle(error) ==
  LET statusCode == IF error.statusCode # NoStatusCode THEN error.statusCode ELSE 500
      isOperational == error.isOperational
  IN  [error |-> error,
       level |-> IF statusCode >= 500 THEN "error"
                 ELSE IF statusCode >= 400 THEN "warn" ELSE "info",
       notified |-> statusCode >= 500 /\ ~isOperational,
       status |-> statusCode,
       code |-> IF error.code # NoErrorCode THEN error.code
                ELSE getDefaultErrorCode(statusCode)]

errorHandler(error) ==
  /\ errs' = IF errs.n = 1 THEN [errs EXCEPT !.n = 2, !.second = handle(error)]
             ELSE [NoneHandled EXCEPT !.n = 1, !.first = handle(error)]
  /\ UNCHANGED notErrs

(***************************************************************************)
(* The health router, mounted at /health behind securityMiddleware and     *)
(* auditMiddleware (which hands every request on at once).                 *)
(***************************************************************************)
HealthRespond(q, status) == [q EXCEPT !.pc = "done", !.status = status, !.responses = @ + 1]

\* router.get('/'): 200 at once; router.get('/ready') asks the store first
HealthBegin(r) ==
  /\ PassedOn(sec[r])
  /\ sec[r].path \in {HealthPath, ReadyPath}
  /\ hc.pc = "idle"
  /\ hc' = IF sec[r].path = HealthPath THEN HealthRespond(IdleHealth, 200)
           ELSE [IdleHealth EXCEPT !.pc = "redis"]
  /\ UNCHANGED healthy
  /\ UNCHANGED notHealth

\* const redisHealth = await checkRedisHealth()
ReadyRedis ==
  /\ hc.pc = "redis"
  /\ hc' = IF storeUp THEN [hc EXCEPT !.pc = "services", !.storeSeen = TRUE]
           ELSE HealthRespond(hc, 503)
  /\ UNCHANGED healthy
  /\ UNCHANGED notHealth

\* simulateServiceCheck: in development a draw of Math.random() per service,
\* otherwise whether GET /health of the service answers 2xx
Environments == {"development", "production"}
simulateServiceCheck(env, draws, serviceName) ==
  IF env = "development" THEN serviceName \in draws ELSE serviceName \in healthy

\* checkCriticalServices, and the answer of router.get('/ready')
ReadyServices(env, draws) ==
  /\ hc.pc = "services"
  /\ LET criticalDown ==
           \E s \in criticalServices : ~simulateServiceCheck(env, draws, s)
         q == [hc EXCEPT !.criticalSeen = criticalServices \subseteq healthy]
     IN  hc' = HealthRespond(q, IF criticalDown THEN 503 ELSE 200)
  /\ UNCHANGED healthy
  /\ UNCHANGED notHealth

\* the response has been sent
HealthRecycle ==
  /\ hc.pc = "done"
  /\ \A r \in Reqs : sec[r].pc = "idle"
  /\ hc' = IdleHealth
  /\ UNCHANGED healthy
  /\ UNCHANGED notHealth

\* a downstream service stops answering its /health, and answers again
ServiceDown(s) ==
  /\ s \in healthy
  /\ healthy' = healthy \ {s}
  /\ UNCHANGED hc
  /\ UNCHANGED notHealth
ServiceUp(s) ==
  /\ s \notin healthy
  /\ healthy' = healthy \cup {s}
  /\ UNCHANGED hc
  /\ UNCHANGED notHealth

\* time passes between handlers; the store drops the keys whose TTL has run out
Quiet ==
  /\ opt.pc \in {"idle", "done"}
  /\ hc.pc \in {"idle", "done"}
  /\ aud.pc \in {"idle", "done"}
  /\ \A r \in Reqs : sec[r].pc \in {"idle", "done"} /\ ~AwaitsLogin(sec[r])
  /\ \A r \in Reqs : auth[r].pc \in {"idle", "done"}
  /\ \A c \in Reqs : rl[c].pc \in {"idle", "done"}
Tick(d, horizon) ==
  /\ Quiet
  /\ now + d <= horizon
  /\ now' = now + d
  /\ store' = RSweep(store, now + d)
  /\ lists' = LSweep(lists, now + d)
  /\ UNCHANGED <<storeUp, secVars, limVars, authVars, rlVars, perm, quietVars, twice>>

\* a request is admitted while the counters it may raise stay below the model's cap
Admit(ip) ==
  /\ store[SuspiciousKey(ip)].n + InFlight({"sqlIncr"}, ip) < MaxSuspicious
  /\ store[RateLimitKey(ip, LoginPath)].n + InFlight({"rlIncr"}, ip) < MaxCount

(***************************************************************************)
(* Spec: clean requests to the sensitive login path and to a plain path,   *)
(* over a few minutes.                                                     *)
(***************************************************************************)
Next ==
  \/ \E r \in Reqs, ip \in IPs, path \in Paths :
       Admit(ip) /\ SecBegin(r, ip, path, CleanShape)
  \/ \E r \in Reqs : SecRlIncr(r)
  \/ \E r \in Reqs : SecRlExpire(r)
  \/ \E r \in Reqs : LoginWrongPassword(r)
  \/ \E r \in Reqs : SecRecycle(r)
  \/ Tick(TickSeconds, MaxTime)

Spec == Init /\ [][Next]_vars

(***************************************************************************)
(* SpecSql: SQL-injection requests, escalation and unblocking, over hours. *)
(***************************************************************************)
NextSql ==
  \/ \E r \in Reqs, ip \in IPs, path \in Paths, sh \in {CleanShape, SqliShape} :
       /\ sh = SqliShape \/ path = UsersPath
       /\ Admit(ip)
       /\ SecBegin(r, ip, path, sh)
  \/ \E r \in Reqs : SecSqlIncr(r)
  \/ \E r \in Reqs : SecSqlExpire(r)
  \/ \E r \in Reqs : SecSqlBlock(r)
  \/ \E r \in Reqs : SecRecycle(r)
  \/ \E ip \in IPs : unblockIP(ip)
  \/ Tick(SuspiciousWindowSeconds \div 2, MaxHours * SuspiciousWindowSeconds)

SpecSql == Init /\ [][NextSql]_vars

(***************************************************************************)
(* SpecOrder: requests of every shape, one after the other, with the clock *)
(* standing still.                                                         *)
(***************************************************************************)
NextOrder ==
  \/ \E ip \in IPs, path \in Paths, sh \in Shapes : Admit(ip) /\ SecBegin(1, ip, path, sh)
  \/ SecSqlIncr(1)
  \/ SecSqlExpire(1)
  \/ SecSqlBlock(1)
  \/ SecRlIncr(1)
  \/ SecRlExpire(1)
  \/ SecRecycle(1)

SpecOrder == Init /\ [][NextOrder]_vars

(***************************************************************************)
(* C3.  Once five SQL-injection-classified requests of an IP have been     *)
(* answered within one hour (and nobody has unblocked the IP), the key     *)
(* blacklist:ip:<ip> exists with reason sql_injection and a TTL of 24      *)
(* hours counted from a moment within that hour; and every request that    *)
(* arrives while the key exists is answered 403 IP_BLACKLISTED without     *)
(* next() and without reaching the counters.                               *)
(***************************************************************************)
C3_Escalation ==
  /\ \A ip \in IPs :
       (hist[ip].sqlAnswered >= 5 /\ ~hist[ip].unblocked) =>
         LET e == store[IpBlacklistKey(ip)]
         IN  /\ e.s = "sql_injection"
             /\ e.exp - 86400 >= hist[ip].sqlFirst
             /\ e.exp - 86400 <= now
  /\ \A r \in Reqs :
       sec[r].first = "IP_BLACKLISTED" =>
         /\ sec[r].pc = "done"
         /\ sec[r].status = 403
         /\ sec[r].code = "IP_BLACKLISTED"
         /\ sec[r].nextCalled = 0
         /\ sec[r].attempts = 0

C3_Witness ==
  \E r \in Reqs :
    /\ hist[sec[r].ip].sqlAnswered = 5
    /\ ~hist[sec[r].ip].unblocked
    /\ sec[r].first = "IP_BLACKLISTED"
    /\ sec[r].status = 403

(***************************************************************************)
(* C4.  securityMiddleware answers with the first failing check, in the    *)
(* order IP blacklist, SQL injection, XSS, path traversal, User-Agent,     *)
(* payload size, sensitive-endpoint rate limit, and a request stopped by a *)
(* check never reaches the counters of a later one: a request of a         *)
(* blacklisted IP reads no suspicious count, a request stopped by checks   *)
(* 1 to 6 reads no rate count, and next() is called at most once, and only *)
(* when no check failed.                                                   *)
(***************************************************************************)
C4_CheckOrder ==
  \A r \in Reqs :
    LET q == sec[r]
    IN  /\ q.nextCalled <= 1
        /\ q.pc \in {"sqlIncr", "sqlExpire", "sqlBlock"} =>
             q.first = "INVALID_REQUEST" /\ q.requests = 0 /\ q.nextCalled = 0
        /\ q.pc \in {"rlIncr", "rlExpire"} =>
             q.first = "" /\ IsSensitive(q.path) /\ q.attempts = 0 /\ q.nextCalled = 0
        /\ q.pc = "done" =>
             IF q.first # ""
             THEN \E i \in 1..6 :
                    /\ CheckOrder[i] = q.first
                    /\ q.code = q.first
                    /\ q.status = CheckStatus[i]
                    /\ q.nextCalled = 0
                    /\ q.requests = 0
                    /\ (q.attempts > 0) = (i = 2)
             ELSE IF IsSensitive(q.path) /\ q.requests > 10
             THEN q.status = 429 /\ q.code = "RATE_LIMIT_EXCEEDED"
                  /\ q.nextCalled = 0 /\ q.attempts = 0
             ELSE q.status = 0 /\ q.nextCalled = 1 /\ q.attempts = 0
                  /\ (q.requests > 0) = IsSensitive(q.path)

\* a request on which several checks fail, answered by the XSS check
C4_Witness ==
  \E r \in Reqs :
    /\ sec[r].pc = "done"
    /\ sec[r].nfail >= 3
    /\ sec[r].code = "INVALID_CONTENT"
    /\ IsSensitive(sec[r].path)
    /\ store[RateLimitKey(sec[r].ip, sec[r].path)].n = 11

(***************************************************************************)
(* C7.  Under any interleaving of the requests of one IP to the sensitive  *)
(* path, at most 10 requests of a five-minute window (counted from its     *)
(* first request) are passed on to next(), and every further request of    *)
(* the window is answered 429 without next().                              *)
(***************************************************************************)
C7_AtMostTenPerWindow ==
  /\ \A ip \in IPs : hist[ip].winPassed <= 10
  /\ \A r \in Reqs :
       (sec[r].pc = "done" /\ sec[r].ord > 10) =>
         sec[r].status = 429 /\ sec[r].nextCalled = 0

\* the eleventh request of the window is answered while the tenth is still
\* between its INCR and its EXPIRE
C7_Witness ==
  \E r1, r2 \in Reqs :
    /\ sec[r1].pc = "done" /\ sec[r1].ord = 11 /\ sec[r1].status = 429
    /\ sec[r2].pc = "rlExpire" /\ sec[r2].ord = 10
    /\ sec[r1].ip = sec[r2].ip

(***************************************************************************)
(* C6 as amended.  Of the wrong-password login attempts of an IP in its    *)
(* first five-minute window, the first ten are answered 401                *)
(* INVALID_CREDENTIALS by the handler and the eleventh and later ones are  *)
(* answered 429 RATE_LIMIT_EXCEEDED by securityMiddleware.                 *)
(***************************************************************************)
LoginAnswered(q) == q.pc = "done" /\ q.path = LoginPath /\ q.fresh /\ q.status # 0

C6_EleventhIs429 ==
  \A r \in Reqs :
    LoginAnswered(sec[r]) =>
      IF sec[r].ord <= 10
      THEN sec[r].status = 401 /\ sec[r].code = "INVALID_CREDENTIALS"
      ELSE sec[r].status = 429 /\ sec[r].code = "RATE_LIMIT_EXCEEDED"
           /\ sec[r].nextCalled = 0

C6_Witness ==
  \E r1, r2 \in Reqs :
    /\ LoginAnswered(sec[r1]) /\ sec[r1].ord = 10 /\ sec[r1].status = 401
    /\ LoginAnswered(sec[r2]) /\ sec[r2].ord = 11 /\ sec[r2].status = 429

(***************************************************************************)
(* C6 as claimed: the first five attempts are answered 401 and the sixth   *)
(* is answered 429.                                                        *)
(***************************************************************************)
C6_SixthIs429 ==
  \A r \in Reqs :
    LoginAnswered(sec[r]) =>
      /\ sec[r].ord <= 5 => sec[r].status = 401 /\ sec[r].code = "INVALID_CREDENTIALS"
      /\ sec[r].ord = 6 => sec[r].status = 429

(***************************************************************************)
(* C8 as claimed, for the counter rate_limit:<ip>:<path>: its expiry is    *)
(* set by the first request of the window and left alone by the later      *)
(* ones, so the key is gone 300 seconds after the first request.           *)
(***************************************************************************)
C8_TtlSetOnce ==
  \A ip \in IPs :
    LET e == store[RateLimitKey(ip, LoginPath)]
    IN  (e # Absent /\ e.exp # NoTTL) => e.exp <= hist[ip].winFirst + 300

(***************************************************************************)
(* SpecAuth: authMiddleware, the two ways of blacklisting a token, the     *)
(* user's active flag and outages of the store, over the life of a token.  *)
(***************************************************************************)
NextAuth ==
  \/ \E r \in Reqs, header \in Tokens \cup {NoHeader} : AuthBegin(r, header)
  \/ \E r \in Reqs : AuthBlacklistGet(r)
  \/ \E r \in Reqs : AuthActiveGet(r)
  \/ \E r \in Reqs : AuthRecycle(r)
  \/ \E t \in Tokens : addToBlacklist("token", t, "logout", BlacklistDefaultSeconds)
  \/ \E t \in Tokens : blacklistToken(t)
  \/ \E u \in Users : SetUserActive(u)
  \/ \E u \in Users : ClearUserActive(u)
  \/ StoreDown
  \/ StoreUp
  \/ Tick(AccessTokenSeconds \div 2, MaxHalfDays * (AccessTokenSeconds \div 2))

SpecAuth == Init /\ [][NextAuth]_vars

(***************************************************************************)
(* C1 as claimed.  A request bearing a signed, unexpired token whose       *)
(* blacklisting (by blacklistToken, or by addToBlacklist('token', ...))    *)
(* completed before the request came in is answered 401 and never reaches  *)
(* next(), unless a store read fails.                                      *)
(***************************************************************************)
C1_RevokedRejected ==
  \A r \in Reqs :
    (auth[r].pc = "done" /\ auth[r].revoked /\ auth[r].live /\ auth[r].status # 500) =>
      auth[r].status = 401 /\ auth[r].nextCalled = 0

AuthCodes ==
  {"MISSING_TOKEN", "TOKEN_BLACKLISTED", "INVALID_TOKEN", "TOKEN_EXPIRED", "USER_INACTIVE"}

NextRate ==
  \/ \E c \in Reqs, limit \in Limits, window \in Windows :
       AdmitCall /\ RlBegin(c, limit, window)
  \/ \E c \in Reqs : RlIncr(c)
  \/ \E c \in Reqs : RlExpire(c)
  \/ \E c \in Reqs : RlTtl(c)
  \/ \E c \in Reqs : RlRecycle(c)
  \/ Tick(TickSeconds, MaxTime)

SpecRate == Init /\ [][NextRate]_vars

(***************************************************************************)
(* C5.  Of the calls of checkRateLimit(key, N, W) in a window of W seconds *)
(* counted from its first call, exactly the first N are allowed (with      *)
(* remaining = N - place) and the later ones are refused; the first call   *)
(* after the window counts as 1 again, and the key never outlives the      *)
(* window of its first call.                                               *)
(***************************************************************************)
C5_FirstNAllowed ==
  /\ \A c \in Reqs :
       rl[c].pc = "done" =>
         /\ rl[c].current = rl[c].ord
         /\ rl[c].allowed = (rl[c].ord <= rlCfg.limit)
         /\ rl[c].remaining = (IF rl[c].ord <= rlCfg.limit
                               THEN rlCfg.limit - rl[c].ord ELSE 0)
  /\ (\A c \in Reqs : rl[c].pc \in {"idle", "done"}) =>
       \/ store[CallerKey] = Absent
       \/ /\ store[CallerKey].exp = rlHist.winFirst + rlCfg.window
          /\ store[CallerKey].exp > now

\* in a second window, the call after the limit is refused while its
\* predecessor, the last one allowed, has not yet returned
C5_Witness ==
  \E c1, c2 \in Reqs :
    /\ rlHist.winFirst > 0
    /\ rl[c1].pc = "done" /\ rl[c1].ord = rlCfg.limit + 1 /\ ~rl[c1].allowed
    /\ rl[c2].pc = "ttl" /\ rl[c2].ord = rlCfg.limit /\ rlCfg.limit >= 2

(***************************************************************************)
(* SpecPerm: permission checks over every set of permissions.              *)
(***************************************************************************)
NextPerm ==
  \E user \in BOOLEAN, role \in Roles, permissions \in SUBSET PermissionNames,
     permission \in PermissionNames :
    /\ user \/ (role = "SINDICO" /\ permissions = {})
    /\ PermCheck(user, role, permissions, permission)

SpecPerm == Init /\ [][NextPerm]_vars

\* P contains p, or 'q:*' for a colon-separated prefix q of p, or 'admin:*'
WildcardRule(P, p) ==
  \/ p \in P
  \/ \E i \in 1..Len(p) : Append(SubSeq(p, 1, i), "*") \in P
  \/ <<"admin", "*">> \in P

(***************************************************************************)
(* C10 as claimed.  For an authenticated Principal with permissions P,     *)
(* requirePermission(p) calls next() iff P contains p, or 'q:*' for a      *)
(* prefix q of p, or 'admin:*'; and it passes exactly when the user        *)
(* service's hasPermission(P, p) is true.                                  *)
(***************************************************************************)
C10_WildcardsHonoured ==
  perm.user =>
    /\ (perm.nextCalled = 1) = WildcardRule(perm.permissions, perm.permission)
    /\ (perm.nextCalled = 1) = perm.service

(***************************************************************************)
(* SpecFail: checkRateLimit and securityMiddleware while the store goes    *)
(* away and comes back.                                                    *)
(***************************************************************************)
NextFail ==
  \/ \E limit \in Limits : AdmitCall /\ RlBegin(1, limit, TickSeconds)
  \/ RlIncr(1)
  \/ RlExpire(1)
  \/ RlTtl(1)
  \/ RlRecycle(1)
  \/ \E ip \in IPs, path \in Paths : Admit(ip) /\ SecBegin(1, ip, path, CleanShape)
  \/ SecRlIncr(1)
  \/ SecRlExpire(1)
  \/ SecRecycle(1)
  \/ StoreDown
  \/ StoreUp

SpecFail == Init /\ [][NextFail]_vars

(***************************************************************************)
(* C9 as claimed.  A call of checkRateLimit that met a failing store       *)
(* returns allowed = true and remaining = limit, and a request to a        *)
(* sensitive endpoint on which no check fails reaches next() even when the *)
(* store fails.                                                            *)
(***************************************************************************)
C9_FailsOpen ==
  /\ \A c \in Reqs :
       (rl[c].pc = "done" /\ rl[c].failed) =>
         rl[c].allowed /\ rl[c].remaining = rlCfg.limit
  /\ \A r \in Reqs :
       (sec[r].pc = "done" /\ IsSensitive(sec[r].path) /\ sec[r].first = ""
          /\ sec[r].requests <= 10) =>
         sec[r].nextCalled = 1 /\ sec[r].status = 0

(***************************************************************************)
(* SpecBuilding: requests through requireBuildingAccess, for every         *)
(* Principal and every way a request names a building.                     *)
(***************************************************************************)
NextBuilding ==
  \E user \in BOOLEAN, role \in BuildingRoles, claim \in ClaimValues,
     params \in FieldValues, body \in FieldValues :
    /\ user \/ (role = "MORADOR" /\ claim = Undefined)
    /\ BuildingCheck(user, role, claim, params, body)

SpecBuilding == Init /\ [][NextBuilding]_vars

(***************************************************************************)
(* C11 as claimed.  A Principal with role ADMIN always passes              *)
(* requireBuildingAccess; any other Principal passes only if it has a      *)
(* buildingId claim and the claim equals the building the request names    *)
(* (params.buildingId, else body.buildingId), and is otherwise answered    *)
(* 403 BUILDING_ACCESS_DENIED without next().                              *)
(***************************************************************************)
C11_BuildingScope ==
  (bld.user /\ (bld.status # 0 \/ bld.nextCalled # 0)) =>
    IF bld.role = "ADMIN" \/ (bld.claim \in BuildingIds
                                /\ bld.claim = OrElse(bld.params, bld.body))
    THEN bld.nextCalled = 1 /\ bld.status = 0
    ELSE bld.nextCalled = 0 /\ bld.status = 403 /\ bld.code = "BUILDING_ACCESS_DENIED"

(***************************************************************************)
(* C12 as claimed.  A request whose token is not on the blacklist and      *)
(* fails verification is answered 401 TOKEN_EXPIRED when the token is      *)
(* correctly signed and its expiry has passed, and 401 INVALID_TOKEN when  *)
(* its signature is wrong.                                                 *)
(***************************************************************************)
C12_ExpiredIsDistinct ==
  \A r \in Reqs :
    LET q == auth[r]
    IN  (q.pc = "done" /\ q.token # NoHeader /\ ~q.listed /\ ~q.live
           /\ q.status # 500) =>
          /\ q.status = 401
          /\ q.code = (IF SignedWithSecret(q.token) THEN "TOKEN_EXPIRED"
                       ELSE "INVALID_TOKEN")

(***************************************************************************)
(* SpecTwice: requests without SQL patterns to a path that is not rate     *)
(* limited, each sent twice in a row; every one is answered at once.       *)
(***************************************************************************)
NextTwice ==
  \/ \E sh \in Shapes : ~sh.sqli /\ SecBeginTwice(1, "ip1", UsersPath, sh)
  \/ SecRecycle(1)

SpecTwice == Init /\ [][NextTwice]_vars

(***************************************************************************)
(* C13 as claimed.  The detectors keep no state: the same request sent     *)
(* twice in a row through securityMiddleware is classified the same way    *)
(* both times.                                                             *)
(***************************************************************************)
C13_SameTwice == twice.n = 2 => twice.code1 = twice.code2

(***************************************************************************)
(* C14 as claimed.  Every request that securityMiddleware has dealt with,  *)
(* passed on to next() or answered 400, 403, 413 or 429, carries the       *)
(* hardening headers the middleware sets.                                  *)
(***************************************************************************)
C14_HeadersAlways ==
  \A r \in Reqs :
    (sec[r].pc = "done" /\ sec[r].status \in {0, 400, 403, 413, 429}) => sec[r].headers

(***************************************************************************)
(* SpecOpt: optionalAuth, with tokens being blacklisted, the user's active *)
(* flag coming and going, and outages of the store.                        *)
(***************************************************************************)
NextOpt ==
  \/ \E header \in Tokens \cup {NoHeader} : OptBegin(header)
  \/ OptBlacklistGet
  \/ OptRecycle
  \/ \E t \in Tokens : blacklistToken(t)
  \/ \E u \in Users : SetUserActive(u)
  \/ \E u \in Users : ClearUserActive(u)
  \/ StoreDown
  \/ StoreUp
  \/ Tick(AccessTokenSeconds \div 2, MaxHalfDays * (AccessTokenSeconds \div 2))

SpecOpt == Init /\ [][NextOpt]_vars

(***************************************************************************)
(* C15 as claimed.  optionalAuth calls next() exactly once and sends no    *)
(* response, whatever the token and the store; it sets req.user exactly    *)
(* when authMiddleware would accept the same request in the same store     *)
(* state.                                                                  *)
(***************************************************************************)
C15_OptionalAsAuth ==
  opt.pc = "done" =>
    /\ opt.nextCalled = 1 /\ opt.responses = 0
    /\ (opt.user # "") = opt.accept

(***************************************************************************)
(* SpecAudit: the first request that reaches auditMiddleware, of every     *)
(* kind, behind securityMiddleware and the requests it rejects, with       *)
(* outages of the store between any two store commands.  The general       *)
(* limiter in front of both admits 1000 requests per window and stays out  *)
(* of it.                                                                  *)
(***************************************************************************)
AuditShapes ==
  {CleanShape, [CleanShape EXCEPT !.badUA = TRUE], [CleanShape EXCEPT !.big = TRUE]}
Outcomes == {<<200, "u1">>, <<401, Undefined>>}
BetweenRequests == sec[1].pc = "idle" /\ aud.pc = "idle"

NextAudit ==
  \/ \E sh \in AuditShapes : aud.id = 0 /\ aud.pc = "idle" /\ SecBegin(1, "ip1", UsersPath, sh)
  \/ \E path \in AuditPaths, method \in AuditMethods, personal \in BOOLEAN :
       AuditBegin(1, path, method, personal)
  \/ \E o \in Outcomes, personal \in BOOLEAN : AuditRespond(o[1], o[2], personal)
  \/ AuditPush
  \/ AuditExpire
  \/ (PassedOn(sec[1]) => aud.pc = "done") /\ SecRecycle(1)
  \/ AuditRecycle
  \/ StoreDown
  \/ StoreUp

SpecAudit == Init /\ [][NextAudit]_vars

(***************************************************************************)
(* SpecAppend: requests for GET /api/users that carry personal data, one   *)
(* after the other over several weeks, with outages of the store, and the  *)
(* readers of the logs between requests.                                   *)
(***************************************************************************)
NextAppend ==
  \/ aud.pc = "idle" /\ SecBegin(1, "ip1", UsersPath, CleanShape)
  \/ AuditBegin(1, <<"api", "users">>, "GET", TRUE)
  \/ \E o \in Outcomes : AuditRespond(o[1], o[2], FALSE)
  \/ AuditPush
  \/ AuditExpire
  \/ (PassedOn(sec[1]) => aud.pc = "done") /\ SecRecycle(1)
  \/ AuditRecycle
  \/ \E date \in AuditDates, limit \in {1, DefaultAuditLimit} :
       BetweenRequests /\ getAuditLogs(date, limit)
  \/ \E limit \in {1, DefaultGdprLimit} : BetweenRequests /\ getGDPRLogs("u1", limit)
  \/ StoreDown
  \/ StoreUp
  \/ BetweenRequests /\ Tick(AuditTickSeconds, MaxAuditTicks * AuditTickSeconds)

SpecAppend == Init /\ [][NextAppend]_vars

(***************************************************************************)
(* C16.  auditMiddleware never blocks or fails the request: it calls       *)
(* next() exactly once, before any store command; the client gets the one  *)
(* response of the route; and when store commands of the writers fail,     *)
(* the errors are caught and every writer that applies to the request has  *)
(* still been entered when the finish handler returns.                     *)
(***************************************************************************)
C16_NeverBlocks ==
  /\ aud.pc # "idle" => aud.nextCalled = 1
  /\ aud.pc = "handler" => aud.accesses = 0 /\ aud.responses = 0
  /\ aud.pc \in {"push", "expire", "done"} => aud.responses = 1 /\ aud.status \in {200, 401}
  /\ aud.pc = "done" => aud.ran = {w \in 1..4 : Applies(aud, w)}

\* the push of saveAuditLog failed, and the financial and the administrative
\* writers ran after it
C16_Witness ==
  /\ aud.pc = "done"
  /\ aud.errors > 0
  /\ aud.pushed["audit"] = 0
  /\ aud.pushed["financial"] = 1
  /\ 4 \in aud.ran

(***************************************************************************)
(* C17 as claimed.  Every request that has received its response, from     *)
(* securityMiddleware (400, 403, 413, 429) or from what follows            *)
(* auditMiddleware, has exactly one record pushed to audit:<date> once its *)
(* finish handler, if any, has returned without a store error.             *)
(***************************************************************************)
C17_EveryRequestAudited ==
  \A r \in {1} :
    (\/ sec[r].pc = "done" /\ sec[r].status \in {400, 403, 413, 429}
     \/ PassedOn(sec[r]) /\ aud.pc = "done" /\ aud.errors = 0)
    => aud.pushed["audit"] = 1

(***************************************************************************)
(* C18 as claimed.  When the finish handler has returned without a store   *)
(* error, the request has a GDPR sub-record exactly when personal data was *)
(* detected in the request or the response, a financial sub-record exactly *)
(* when its path is a financial-data endpoint and an administrative        *)
(* sub-record exactly when its action is administrative, each in its own   *)
(* key with a TTL of 7, 10 and 10 years.                                   *)
(***************************************************************************)
SubRecordTtls ==
  \A w \in 2..4 :
    aud.pushed[Writers[w]] = 1 =>
      lists[<<Writers[w], DateOf(now)>>].exp = now + WriterTtl[w]
C18_SubRecords ==
  (aud.pc = "done" /\ aud.errors = 0) =>
    /\ aud.pushed["gdpr"] = 1 <=> aud.personal
    /\ aud.pushed["financial"] = 1 <=> aud.isFinancialData
    /\ aud.pushed["admin"] = 1 <=> isAdministrativeAction(aud.path, aud.method)
    /\ SubRecordTtls

(***************************************************************************)
(* C19.  Audit records are append-only: in every step every audit:, gdpr:, *)
(* financial: and admin: list keeps the records it had, unmodified and in  *)
(* their order, behind whatever was pushed, or its key expires by its TTL; *)
(* getAuditLogs and getGDPRLogs change no list.                            *)
(***************************************************************************)
IsSuffix(old, new) ==
  Len(old) <= Len(new) /\ SubSeq(new, Len(new) - Len(old) + 1, Len(new)) = old
C19_AppendOnly ==
  [][\A k \in ListKeys :
       \/ IsSuffix(lists[k].items, lists'[k].items)
       \/ lists[k].exp # NoTTL /\ lists[k].exp <= now' /\ lists'[k] = NoList]_vars

\* two records in the audit list of the first day, and both read back
C19_Witness ==
  /\ Len(lists[<<"audit", 0>>].items) = 2
  /\ fetched = lists[<<"audit", 0>>].items

(***************************************************************************)
(* SpecHealth: GET /health and GET /health/ready, one request at a time,   *)
(* with outages of the store and of the critical downstream services.      *)
(***************************************************************************)
HealthShapes == {CleanShape, [CleanShape EXCEPT !.badUA = TRUE]}

NextHealth ==
  \/ \E path \in {HealthPath, ReadyPath}, sh \in HealthShapes :
       hc.pc = "idle" /\ SecBegin(1, "ip1", path, sh)
  \/ HealthBegin(1)
  \/ ReadyRedis
  \/ \E env \in Environments, draws \in SUBSET criticalServices : ReadyServices(env, draws)
  \/ (PassedOn(sec[1]) => hc.pc = "done") /\ SecRecycle(1)
  \/ HealthRecycle
  \/ \E s \in criticalServices : ServiceDown(s)
  \/ \E s \in criticalServices : ServiceUp(s)
  \/ StoreDown
  \/ StoreUp

SpecHealth == Init /\ [][NextHealth]_vars

(***************************************************************************)
(* C20 as claimed.  Every answer to GET /health is 200, whatever the state *)
(* of the store and of the downstream services; every answer to            *)
(* GET /health/ready is 200 when the store was reachable and               *)
(* user-management, building-management and financial were healthy when    *)
(* they were checked, and 503 otherwise.                                   *)
(***************************************************************************)
HealthAnswered(r) ==
  sec[r].pc = "done" /\ (PassedOn(sec[r]) => hc.pc = "done")
HealthAnswer(r) == IF PassedOn(sec[r]) THEN hc.status ELSE sec[r].status
C20_HealthByState ==
  \A r \in {1} :
    HealthAnswered(r) =>
      IF sec[r].path = HealthPath THEN HealthAnswer(r) = 200
      ELSE /\ HealthAnswer(r) \in {200, 503}
           /\ HealthAnswer(r) = 200 <=> (hc.storeSeen /\ hc.criticalSeen)

(***************************************************************************)
(* SpecTokens: generateTokens called for users of every role.              *)
(***************************************************************************)
NextTokens == \E user \in UserObjects : generateTokens(user)

SpecTokens == Init /\ [][NextTokens]_vars

(***************************************************************************)
(* C21 as claimed.  The permissions of an issued access token depend on    *)
(* the role alone: two users of the same role get the same permissions,    *)
(* whatever else their objects carry, and a role outside the mapping gets  *)
(* the empty permission set.                                               *)
(***************************************************************************)
C21_RoleOnly ==
  /\ gen.n = 2 =>
       (gen.first.role = gen.second.role => gen.first.permissions = gen.second.permissions)
  /\ \A payload \in {gen.first, gen.second} :
       (gen.n = 2 /\ payload.role \notin DOMAIN basePermissions) => payload.permissions = {}

(***************************************************************************)
(* SpecLogin: POST /login for every account, with right and wrong          *)
(* passwords and two-factor codes, and outages of the store.               *)
(***************************************************************************)
NextLogin ==
  \/ \E email \in Emails, password \in {"pw1", "wrong"}, twoFactorCode \in TwoFactorCodes :
       /\ twoFactorCode # NoCode => email = "bia@x"
       /\ LoginRequest(email, password, twoFactorCode)
  \/ StoreDown
  \/ StoreUp
  \/ Tick(TickSeconds, TickSeconds)

SpecLogin == Init /\ [][NextLogin]_vars

(***************************************************************************)
(* C22 as claimed.  A login with the right password of an existing, active *)
(* account without two-factor authentication is answered 200 with a token  *)
(* pair (unless the store fails), and with a wrong password 401            *)
(* INVALID_CREDENTIALS; tokens are generated only for an existing, active  *)
(* user whose password verified and, with two-factor authentication, whose *)
(* code was valid; an answer without tokens generated nothing and left the *)
(* stored refresh token alone.                                             *)
(***************************************************************************)
LoginAnswer == resp.op = "login"
ValidNoTwoFactor == resp.found /\ resp.active /\ resp.passwordValid /\ ~resp.twoFactor
WrongPasswordIs401 ==
  (LoginAnswer /\ resp.found /\ resp.active /\ ~resp.passwordValid) =>
    (resp.status = 401 /\ resp.code = "INVALID_CREDENTIALS")
TokensOnlyWhenEntitled ==
  (LoginAnswer /\ resp.generated) =>
    /\ resp.found /\ resp.active /\ resp.passwordValid
    /\ resp.twoFactor => resp.codeValid
RejectedLeavesStore ==
  (LoginAnswer /\ resp.status # 500 /\ resp.tokens = NoPair) =>
    (~resp.generated /\ resp.storedAfter = resp.storedBefore)
C22_LoginAsClaimed ==
  /\ (LoginAnswer /\ ValidNoTwoFactor /\ resp.status # 500) =>
       (resp.status = 200 /\ resp.tokens # NoPair)
  /\ WrongPasswordIs401
  /\ TokensOnlyWhenEntitled
  /\ RejectedLeavesStore

(***************************************************************************)
(* C22 amended.  The same, for an account whose email has been verified:   *)
(* a login with the right password of an unverified account is answered    *)
(* 401 EMAIL_NOT_VERIFIED, and tokens are generated only for verified      *)
(* accounts.                                                               *)
(***************************************************************************)
C22_LoginVerified ==
  /\ (LoginAnswer /\ ValidNoTwoFactor /\ resp.verified /\ resp.status # 500) =>
       (resp.status = 200 /\ resp.tokens # NoPair /\ resp.generated
        /\ resp.storedAfter = resp.tokens.refreshToken)
  /\ (LoginAnswer /\ ValidNoTwoFactor /\ ~resp.verified) =>
       (resp.status = 401 /\ resp.code = "EMAIL_NOT_VERIFIED")
  /\ WrongPasswordIs401
  /\ TokensOnlyWhenEntitled
  /\ (LoginAnswer /\ resp.generated) => resp.verified
  /\ RejectedLeavesStore
\* a login of ana answered 200 with a pair whose refresh token replaced the
\* one stored for her
C22_Witness ==
  /\ LoginAnswer /\ resp.userId = "u1" /\ resp.status = 200 /\ resp.generated
  /\ resp.storedBefore # NoToken /\ resp.storedAfter = resp.tokens.refreshToken
  /\ resp.storedAfter # resp.storedBefore

(***************************************************************************)
(* C29 as claimed.  A login that does not carry the right password of the  *)
(* account is answered 401 INVALID_CREDENTIALS, the same for an email that *)
(* is not registered, for an active account and for a deactivated one.     *)
(***************************************************************************)
C29_SameAnswerWithoutPassword ==
  (LoginAnswer /\ ~resp.passwordValid) =>
    (resp.status = 401 /\ resp.code = "INVALID_CREDENTIALS")

(***************************************************************************)
(* SpecRefresh: ana logs in and her refresh tokens are presented to        *)
(* POST /refresh by two requests that may overlap.                         *)
(***************************************************************************)
RefreshInputs == {t \in issued : t.type = "refresh"} \cup {ForgedRefresh}

NextRefresh ==
  \/ LoginRequest("ana@x", "pw1", NoCode)
  \/ \E r \in Reqs, refreshToken \in RefreshInputs : RefreshBegin(r, refreshToken)
  \/ \E r \in Reqs : RefreshFinish(r)
  \/ \E r \in Reqs : RefreshRecycle(r)
  \/ \E value \in BOOLEAN : SetIsActive("u1", value)
  \/ Tick(TickSeconds, MaxTime)

SpecRefresh == Init /\ [][NextRefresh]_vars

(***************************************************************************)
(* C24 as claimed.  A refresh token buys a new pair at most once: no       *)
(* request is answered 200 for a token that has already bought a pair, and *)
(* a request that presents a token after it bought a pair is answered 401  *)
(* INVALID_REFRESH_TOKEN.                                                  *)
(***************************************************************************)
C24_RedeemedOnce ==
  \A r \in Reqs :
    rf[r].pc = "done" =>
      /\ rf[r].status = 200 => ~rf[r].again
      /\ rf[r].wasRedeemed => (rf[r].status = 401 /\ rf[r].code = "INVALID_REFRESH_TOKEN")

(***************************************************************************)
(* SpecSession: ana logs in, refreshes, logs out and resets her password.  *)
(***************************************************************************)
AccessInputs == {t \in issued : t.type = "access"} \cup {NoToken}

NextSession ==
  \/ \E password \in {"pw1", "pw2"} : LoginRequest("ana@x", password, NoCode)
  \/ \E refreshToken \in RefreshInputs : RefreshBegin(1, refreshToken)
  \/ RefreshFinish(1)
  \/ RefreshRecycle(1)
  \/ \E accessToken \in AccessInputs, refreshToken \in RefreshInputs \cup {NoToken} :
       Logout(accessToken, refreshToken)
  \/ \E token \in ResetTokens : ResetPassword(token, "pw2")
  \/ Tick(TickSeconds, TickSeconds)

SpecSession == Init /\ [][NextSession]_vars

(***************************************************************************)
(* C25 as claimed.  A logout that presents a refresh token other than the  *)
(* one stored for its user leaves the stored refresh token of that user in *)
(* the store.                                                              *)
(***************************************************************************)
C25_LogoutOnlyCurrent ==
  (resp.op = "logout" /\ resp.storedBefore # NoToken
     /\ resp.presented # resp.storedBefore) =>
    resp.storedAfter = resp.storedBefore

(***************************************************************************)
(* C26 as claimed.  After a password reset of a user, the tokens issued to *)
(* the user before it are refused: authentication does not accept such an  *)
(* access token, and POST /refresh answers 401 to such a refresh token.    *)
(***************************************************************************)
AccessAccepted(token) == verifyAccessToken(token, now) # NoUser /\ token \notin tokenBlacklist
C26_ResetInvalidates ==
  /\ \A token \in stale : ~AccessAccepted(token)
  /\ \A r \in Reqs : (rf[r].pc = "done" /\ rf[r].wasStale) => rf[r].status = 401

(***************************************************************************)
(* SpecErrors: errorHandler called with errors of every kind.              *)
(***************************************************************************)
NextErrors == \E error \in Errors : errorHandler(error)

SpecErrors == Init /\ [][NextErrors]_vars

(***************************************************************************)
(* C23 as claimed.  errorHandler calls notifyCriticalError for an error    *)
(* exactly when the error is not operational, and answers it with its      *)
(* statusCode (500 when it has none) and its code (the default code of the *)
(* status when it has none).                                               *)
(***************************************************************************)
Handled == IF errs.n = 2 THEN {errs.first, errs.second} ELSE {}
AnswersAsTheError(h) ==
  /\ h.status = IF h.error.statusCode # NoStatusCode THEN h.error.statusCode ELSE 500
  /\ h.code = IF h.error.code # NoErrorCode THEN h.error.code
              ELSE getDefaultErrorCode(h.status)
C23_AlertsNonOperational ==
  \A h \in Handled :
    /\ h.notified <=> ~h.error.isOperational
    /\ AnswersAsTheError(h)

(***************************************************************************)
(* SpecSanitize: the two sanitizers applied to strings built from the      *)
(* pieces the patterns are about, and to arrays and objects of them.       *)
(***************************************************************************)
Chunks ==
  {<<"j", "a", "v", "a">>, <<"V", "B">>, <<"s", "c", "r", "i", "p", "t", ":">>,
   <<"<">>, <<">">>, <<" ">>, <<"o", "n", "x", "=">>}
RECURSIVE Concat(_)
Concat(chunks) == IF chunks = <<>> THEN <<>> ELSE Head(chunks) \o Concat(Tail(chunks))
StringsUpTo(n) == {Concat(chunks) : chunks \in UNION {[1..k -> Chunks] : k \in 0..n}}
ShortStrings == {StringValue(str) : str \in StringsUpTo(1)}
Bodies ==
  {StringValue(str) : str \in StringsUpTo(MaxChunks)}
    \cup {ArrayValue(<<a, b>>) : a \in ShortStrings, b \in ShortStrings}
    \cup {ObjectValue(<<key>>, <<ArrayValue(<<a>>)>>) :
            key \in {<<"x">>, <<"<">>, <<" ", "x", ">">>}, a \in ShortStrings}

\* one application in a behaviour
NextSanitize ==
  /\ san = NoneSanitized
  /\ \E fn \in Sanitizers, body \in Bodies : Sanitize(fn, body)

SpecSanitize == Init /\ [][NextSanitize]_vars

(***************************************************************************)
(* C30 as claimed.  After sanitization no string value at any depth        *)
(* contains <, >, javascript: or vbscript: in any case, and sanitizing the *)
(* result again returns it unchanged.  For securityMiddleware this is      *)
(* asked of the data detectXSS lets through to step 9.                     *)
(***************************************************************************)
CleanString(str) ==
  /\ \A i \in 1..Len(str) : str[i] \notin {"<", ">"}
  /\ ~ContainsPattern(str, JavascriptPattern)
  /\ ~ContainsPattern(str, VbscriptPattern)
C30_SanitizedAndIdempotent ==
  (san.fn \in Sanitizers /\ (san.fn = "securityMiddleware" => ~san.detected)) =>
    /\ \A str \in StringsOf(san.output) : CleanString(str)
    /\ san.again = san.output

(***************************************************************************)
(* C28 as claimed.  After unblockIP removed the blacklist entry of an IP,  *)
(* the entry exists again only when five further SQL-injection requests of *)
(* that IP have been seen since.                                           *)
(***************************************************************************)
C28_FiveMoreAfterUnblock ==
  \A ip \in IPs :
    (hist[ip].unblocked /\ RExists(store, IpBlacklistKey(ip))) =>
      hist[ip].sqlSinceUnblock >= SuspiciousThreshold

(***************************************************************************)
(* C27 as claimed.  Every rate-counter key that exists has a finite TTL,   *)
(* also after a store call of a request failed; asked whenever no request  *)
(* stands between the INCR and the EXPIRE of the key.                      *)
(***************************************************************************)
CounterKeys ==
  {CallerKey} \cup {SuspiciousKey(ip) : ip \in IPs}
    \cup {RateLimitKey(ip, path) : ip \in IPs, path \in {LoginPath}}
BetweenIncrAndExpire ==
  \/ \E c \in Reqs : rl[c].pc = "expire"
  \/ \E r \in Reqs : sec[r].pc \in {"rlExpire", "sqlExpire"}
C27_CountersExpire ==
  ~BetweenIncrAndExpire =>
    \A k \in CounterKeys : RExists(store, k) => store[k].exp # NoTTL

====
